---- MODULE Spec2Model ----
(***************************************************************************)
(* heroine-graph, packages/wasm: the GraphEngine (graph/engine.rs) over    *)
(* petgraph's StableGraph, its SoA buffers, id maps and spatial index.     *)
(*                                                                         *)
(* Slots (petgraph NodeIndex / EdgeIndex) are 0-based as in the code; a    *)
(* Vec v is a TLA+ sequence and v[i] of the code is v[i + 1] here.         *)
(* f32 coordinates are integers, with f32::INFINITY / NEG_INFINITY the     *)
(* two values Inf / NegInf that compare above / below every other one.     *)
(* Edge weights (always stored, never read by the operations modelled)     *)
(* are left out: an edge slot is vacant or holds (source, target).         *)
(***************************************************************************)
EXTENDS Integers, Sequences, FiniteSets, TLC

\* ---- bounds of the model ------------------------------------------------
\* add_node is called while next_node_id is below the node bound of the
\* specification, add_edge while next_edge_id is below its edge bound.
MaxNodes == 2          \* Spec: every operation
MaxEdges == 1
TopoMaxNodes == 3      \* SpecTopo: the operations that change the topology
TopoMaxEdges == 3
PosMaxNodes == 3       \* SpecPos: the operations on nodes, edges and positions
PosMaxEdges == 1
SpatMaxNodes == 2      \* SpecSpatial: positions, the spatial index and its queries

\* ---- values -------------------------------------------------------------
Inf    == 1000         \* f32::INFINITY
NegInf == 0 - Inf      \* f32::NEG_INFINITY
Vacant == 0 - 1        \* Option::None in a node slot / an absent result
Coords == {<<2, 1>>, <<Inf, 3>>, <<-4, 5>>}   \* the (x, y) arguments the callers pass
SpatCoords == {<<2, 1>>, <<-4, 5>>}       \* positions and query points of SpecSpatial
Rects == {<<-5, 0, 0, 6>>, <<-5, 0, 3, 6>>}   \* (min_x, min_y, max_x, max_y) query rectangles
Origin == {<<2, 1>>}               \* ... where the positions are not looked at

\* the ids the callers pass: every id handed out and one never handed out
NodeIds(n) == 0 .. n
EdgeIds(n) == 0 .. n

\* ---- Vec / HashMap helpers ---------------------------------------------
At(v, i) == v[i + 1]
SetAt(v, i, x) == [v EXCEPT ![i + 1] = x]
EmptyMap == <<>>
RECURSIVE MapOn(_, _)
MapOn(m, keys) ==
    IF keys = {} THEN EmptyMap
    ELSE LET k == CHOOSE x \in keys : TRUE IN (k :> m[k]) @@ MapOn(m, keys \ {k})
MapPut(m, k, x) == (k :> x) @@ MapOn(m, (DOMAIN m) \ {k})
MapDel(m, k) == MapOn(m, (DOMAIN m) \ {k})
Without(s, x) == SelectSeq(s, LAMBDA y : y # x)

\* ---- petgraph::StableGraph<NodeId, f32, Directed> -----------------------
\* nodes[i] = [weight: the NodeId stored or Vacant, out / inc: the edge
\* lists of the slot, most recently added edge first]; edges[k] = [live,
\* src, tgt]; free_node / free_edge: the vacant slots, next to reuse first.
VacantEdge == [live |-> FALSE, src |-> Vacant, tgt |-> Vacant]

sg_new == [nodes |-> <<>>, edges |-> <<>>, free_node |-> <<>>, free_edge |-> <<>>]

sg_node_indices(g) == {i \in 0 .. Len(g.nodes) - 1 : At(g.nodes, i).weight # Vacant}

sg_edge_indices(g) == {k \in 0 .. Len(g.edges) - 1 : At(g.edges, k).live}

sg_node_count(g) == Cardinality(sg_node_indices(g))

sg_edge_count(g) == Cardinality(sg_edge_indices(g))

SetMax(S) == CHOOSE m \in S : \A o \in S : o <= m

SetMin(S) == CHOOSE m \in S : \A o \in S : m <= o

sg_node_bound(g) ==
    IF sg_node_indices(g) = {} THEN 0 ELSE SetMax(sg_node_indices(g)) + 1

sg_add_node(g, w) ==
    IF g.free_node # <<>>
    THEN LET idx == Head(g.free_node) IN
         [g |-> [g EXCEPT !.nodes[idx + 1].weight = w,
                          !.free_node = Tail(@)],
          index |-> idx]
    ELSE [g |-> [g EXCEPT !.nodes = Append(@, [weight |-> w, out |-> <<>>, inc |-> <<>>])],
          index |-> Len(g.nodes)]

sg_add_edge(g, a, b) ==
    LET idx == IF g.free_edge # <<>> THEN Head(g.free_edge) ELSE Len(g.edges)
        rec == [live |-> TRUE, src |-> a, tgt |-> b]
        es  == IF g.free_edge # <<>> THEN SetAt(g.edges, idx, rec)
                                     ELSE Append(g.edges, rec)
        fr  == IF g.free_edge # <<>> THEN Tail(g.free_edge) ELSE g.free_edge
        ns  == [g.nodes EXCEPT ![a + 1].out = <<idx>> \o @,
                               ![b + 1].inc = <<idx>> \o @]
    IN [g |-> [nodes |-> ns, edges |-> es, free_node |-> g.free_node, free_edge |-> fr],
        index |-> idx]

sg_remove_edge(g, k) ==
    IF k \notin sg_edge_indices(g) THEN g
    ELSE [nodes |-> [g.nodes EXCEPT ![At(g.edges, k).src + 1].out = Without(@, k),
                                    ![At(g.edges, k).tgt + 1].inc = Without(@, k)],
          edges |-> SetAt(g.edges, k, VacantEdge),
          free_node |-> g.free_node,
          free_edge |-> <<k>> \o g.free_edge]

\* the loop of remove_node over one direction: drop the head of the list
\* until the list is empty (dir 0 = Outgoing, 1 = Incoming)
RECURSIVE sg_drain(_, _, _)
sg_drain(g, a, dir) ==
    LET lst == IF dir = 0 THEN At(g.nodes, a).out ELSE At(g.nodes, a).inc IN
    IF lst = <<>> THEN g ELSE sg_drain(sg_remove_edge(g, Head(lst)), a, dir)

sg_remove_node(g, a) ==
    IF a \notin sg_node_indices(g) THEN g
    ELSE LET g1 == sg_drain(sg_drain(g, a, 0), a, 1) IN
         [g1 EXCEPT !.nodes[a + 1].weight = Vacant,
                    !.free_node = <<a>> \o @]

sg_clear == sg_new

\* ascending sequence of the elements of a finite set of integers
RECURSIVE Ascending(_)
Ascending(S) ==
    IF S = {} THEN <<>>
    ELSE LET m == CHOOSE x \in S : \A o \in S : x <= o IN <<m>> \o Ascending(S \ {m})

\* graph.edge_references(): the live edges by ascending EdgeIndex
sg_edge_references(g) == Ascending(sg_edge_indices(g))

\* ---- GraphEngine: the methods as functions of the engine value e --------
\* states[i] is the flags byte of NodeState (PINNED = 1 is the only flag the
\* engine sets); spatial is the content of the R-tree, a set of
\* <<id, x, y>> points.
PINNED == 1
None == <<>>

EngineNew ==
    [graph |-> sg_new,
     node_id_to_index |-> EmptyMap,
     edge_id_to_index |-> EmptyMap,
     edge_index_to_id |-> EmptyMap,
     next_node_id |-> 0,
     next_edge_id |-> 0,
     pos_x |-> <<>>, pos_y |-> <<>>, vel_x |-> <<>>, vel_y |-> <<>>,
     states |-> <<>>,
     spatial |-> {},
     spatial_dirty |-> FALSE]

\* variant: the id is taken from the slot the graph handed out
add_node_id_from_slot(e, x, y) ==
    LET r  == sg_add_node(e.graph, e.next_node_id)
        id == r.index
    IN [e |-> [e EXCEPT !.next_node_id = @ + 1,
                        !.graph = r.g,
                        !.node_id_to_index = MapPut(@, id, r.index),
                        !.pos_x = Append(@, x),
                        !.pos_y = Append(@, y),
                        !.vel_x = Append(@, 0),
                        !.vel_y = Append(@, 0),
                        !.states = Append(@, 0),
                        !.spatial_dirty = TRUE],
        ret |-> id]

add_node(e, x, y) ==
    LET id == e.next_node_id
        r  == sg_add_node(e.graph, id)
    IN [e |-> [e EXCEPT !.next_node_id = id + 1,
                        !.graph = r.g,
                        !.node_id_to_index = MapPut(@, id, r.index),
                        !.pos_x = Append(@, x),
                        !.pos_y = Append(@, y),
                        !.vel_x = Append(@, 0),
                        !.vel_y = Append(@, 0),
                        !.states = Append(@, 0),
                        !.spatial_dirty = TRUE],
        ret |-> id]

\* the loop of remove_node over the collected edge indices
RECURSIVE forget_edges(_, _, _)
forget_edges(i2e, e2i, lst) ==
    IF lst = <<>> THEN [edge_index_to_id |-> i2e, edge_id_to_index |-> e2i]
    ELSE LET k == Head(lst) IN
         IF k \in DOMAIN i2e
         THEN forget_edges(MapDel(i2e, k), MapDel(e2i, i2e[k]), Tail(lst))
         ELSE forget_edges(i2e, e2i, Tail(lst))

\* variant: only the outgoing edges are dropped from the edge maps
remove_node_outgoing_only(e, id) ==
    IF id \in DOMAIN e.node_id_to_index
    THEN LET index == e.node_id_to_index[id]
             edges == At(e.graph.nodes, index).out
             m     == forget_edges(e.edge_index_to_id, e.edge_id_to_index, edges)
             zero  == index < Len(e.pos_x)
         IN [e |-> [e EXCEPT !.node_id_to_index = MapDel(@, id),
                             !.edge_index_to_id = m.edge_index_to_id,
                             !.edge_id_to_index = m.edge_id_to_index,
                             !.pos_x = IF zero THEN SetAt(@, index, 0) ELSE @,
                             !.pos_y = IF zero THEN SetAt(@, index, 0) ELSE @,
                             !.vel_x = IF zero THEN SetAt(@, index, 0) ELSE @,
                             !.vel_y = IF zero THEN SetAt(@, index, 0) ELSE @,
                             !.states = IF zero THEN SetAt(@, index, 0) ELSE @,
                             !.graph = sg_remove_node(@, index),
                             !.spatial_dirty = TRUE],
             ret |-> TRUE]
    ELSE [e |-> e, ret |-> FALSE]

remove_node(e, id) ==
    IF id \in DOMAIN e.node_id_to_index
    THEN LET index == e.node_id_to_index[id]
             edges == At(e.graph.nodes, index).out \o At(e.graph.nodes, index).inc
             m     == forget_edges(e.edge_index_to_id, e.edge_id_to_index, edges)
             zero  == index < Len(e.pos_x)
         IN [e |-> [e EXCEPT !.node_id_to_index = MapDel(@, id),
                             !.edge_index_to_id = m.edge_index_to_id,
                             !.edge_id_to_index = m.edge_id_to_index,
                             !.pos_x = IF zero THEN SetAt(@, index, 0) ELSE @,
                             !.pos_y = IF zero THEN SetAt(@, index, 0) ELSE @,
                             !.vel_x = IF zero THEN SetAt(@, index, 0) ELSE @,
                             !.vel_y = IF zero THEN SetAt(@, index, 0) ELSE @,
                             !.states = IF zero THEN SetAt(@, index, 0) ELSE @,
                             !.graph = sg_remove_node(@, index),
                             !.spatial_dirty = TRUE],
             ret |-> TRUE]
    ELSE [e |-> e, ret |-> FALSE]

node_count(e) == sg_node_count(e.graph)

node_bound(e) == sg_node_bound(e.graph)

edge_count(e) == sg_edge_count(e.graph)

get_node_position(e, id) ==
    IF id \in DOMAIN e.node_id_to_index
    THEN LET i == e.node_id_to_index[id] IN <<At(e.pos_x, i), At(e.pos_y, i)>>
    ELSE None

\* variant: the index is not marked stale
set_node_position_keeps_flag(e, id, x, y) ==
    IF id \in DOMAIN e.node_id_to_index
    THEN LET i == e.node_id_to_index[id] IN
         [e EXCEPT !.pos_x = SetAt(@, i, x),
                   !.pos_y = SetAt(@, i, y)]
    ELSE e

set_node_position(e, id, x, y) ==
    IF id \in DOMAIN e.node_id_to_index
    THEN LET i == e.node_id_to_index[id] IN
         [e EXCEPT !.pos_x = SetAt(@, i, x),
                   !.pos_y = SetAt(@, i, y),
                   !.spatial_dirty = TRUE]
    ELSE e

pin_node(e, id) ==
    IF id \in DOMAIN e.node_id_to_index
    THEN [e EXCEPT !.states = SetAt(@, e.node_id_to_index[id], PINNED)]
    ELSE e

unpin_node(e, id) ==
    IF id \in DOMAIN e.node_id_to_index
    THEN [e EXCEPT !.states = SetAt(@, e.node_id_to_index[id], 0)]
    ELSE e

is_node_pinned(e, id) ==
    IF id \in DOMAIN e.node_id_to_index
    THEN At(e.states, e.node_id_to_index[id]) = PINNED
    ELSE FALSE

\* variant: the edge id is taken before the endpoints are looked up
add_edge_counts_first(e, source, target) ==
    LET id == e.next_edge_id
        c  == [e EXCEPT !.next_edge_id = id + 1]
    IN IF source \notin DOMAIN e.node_id_to_index THEN [e |-> c, ret |-> Vacant]
       ELSE IF target \notin DOMAIN e.node_id_to_index THEN [e |-> c, ret |-> Vacant]
       ELSE LET r == sg_add_edge(e.graph, e.node_id_to_index[source],
                                 e.node_id_to_index[target])
            IN [e |-> [c EXCEPT !.graph = r.g,
                                !.edge_id_to_index = MapPut(@, id, r.index),
                                !.edge_index_to_id = MapPut(@, r.index, id)],
                ret |-> id]

add_edge(e, source, target) ==
    IF source \notin DOMAIN e.node_id_to_index THEN [e |-> e, ret |-> Vacant]
    ELSE IF target \notin DOMAIN e.node_id_to_index THEN [e |-> e, ret |-> Vacant]
    ELSE LET id == e.next_edge_id
             r  == sg_add_edge(e.graph, e.node_id_to_index[source],
                               e.node_id_to_index[target])
         IN [e |-> [e EXCEPT !.next_edge_id = id + 1,
                             !.graph = r.g,
                             !.edge_id_to_index = MapPut(@, id, r.index),
                             !.edge_index_to_id = MapPut(@, r.index, id)],
             ret |-> id]

\* edges is the flat array [src0, tgt0, src1, tgt1, ...]
RECURSIVE add_edges_loop(_, _, _, _)
add_edges_loop(e, edges, i, added) ==
    IF i >= Len(edges) \div 2 THEN [e |-> e, ret |-> added]
    ELSE LET r == add_edge(e, At(edges, i * 2), At(edges, i * 2 + 1)) IN
         add_edges_loop(r.e, edges, i + 1, IF r.ret # Vacant THEN added + 1 ELSE added)

\* variant: the loop starts at the second pair
add_edges_from_pairs_skip_first(e, edges) == add_edges_loop(e, edges, 1, 0)

add_edges_from_pairs(e, edges) == add_edges_loop(e, edges, 0, 0)

\* variant: the slot of the removed edge stays in edge_index_to_id
remove_edge_keeps_index(e, id) ==
    IF id \in DOMAIN e.edge_id_to_index
    THEN LET index == e.edge_id_to_index[id] IN
         [e |-> [e EXCEPT !.edge_id_to_index = MapDel(@, id),
                          !.graph = sg_remove_edge(@, index)],
          ret |-> TRUE]
    ELSE [e |-> e, ret |-> FALSE]

remove_edge(e, id) ==
    IF id \in DOMAIN e.edge_id_to_index
    THEN LET index == e.edge_id_to_index[id] IN
         [e |-> [e EXCEPT !.edge_id_to_index = MapDel(@, id),
                          !.edge_index_to_id = MapDel(@, index),
                          !.graph = sg_remove_edge(@, index)],
          ret |-> TRUE]
    ELSE [e |-> e, ret |-> FALSE]

\* graph.neighbors(index): the targets of the out list, head first, each
\* mapped to the NodeId its slot stores
RECURSIVE neighbor_ids(_, _)
neighbor_ids(g, out) ==
    IF out = <<>> THEN <<>>
    ELSE LET w == At(g.nodes, At(g.edges, Head(out)).tgt).weight IN
         (IF w # Vacant THEN <<w>> ELSE <<>>) \o neighbor_ids(g, Tail(out))

get_neighbors(e, id) ==
    IF id \in DOMAIN e.node_id_to_index
    THEN neighbor_ids(e.graph, At(e.graph.nodes, e.node_id_to_index[id]).out)
    ELSE <<>>

positions_x(e) == e.pos_x

positions_y(e) == e.pos_y

velocities_x(e) == e.vel_x

velocities_y(e) == e.vel_y

\* HeroineGraphWasm::positions_len
positions_len(e) == Len(positions_x(e))

\* NodePoint::distance_2; a point of the index is <<id, x, y>>
distance_2(p, x, y) == (p[2] - x) * (p[2] - x) + (p[3] - y) * (p[3] - y)

\* SpatialIndex::nearest: the results the R-tree can give, an id of a point
\* at the least distance (which one on a tie is the tree's choice), or
\* Vacant for None on an empty tree
nearest(tree, x, y) ==
    IF tree = {} THEN {Vacant}
    ELSE {p[1] : p \in {q \in tree :
                          \A o \in tree : distance_2(q, x, y) <= distance_2(o, x, y)}}

\* SpatialIndex::in_rect, as the set of the ids in the returned Vec
in_rect(tree, min_x, min_y, max_x, max_y) ==
    {p[1] : p \in {q \in tree : /\ min_x <= q[2] /\ q[2] <= max_x
                                /\ min_y <= q[3] /\ q[3] <= max_y}}

\* the body of the if is empty: the index is left as it is
ensure_spatial_index_up_to_date(e) == e

find_nearest_node(e, x, y) == nearest(ensure_spatial_index_up_to_date(e).spatial, x, y)

find_nodes_in_rect(e, min_x, min_y, max_x, max_y) ==
    in_rect(ensure_spatial_index_up_to_date(e).spatial, min_x, min_y, max_x, max_y)

rebuild_spatial_index(e) ==
    [e EXCEPT !.spatial = {<<id, At(e.pos_x, e.node_id_to_index[id]),
                                 At(e.pos_y, e.node_id_to_index[id])>> :
                             id \in DOMAIN e.node_id_to_index},
              !.spatial_dirty = FALSE]

\* variant: the id counters survive
clear_keeps_counters(e) ==
    [graph |-> sg_clear,
     node_id_to_index |-> EmptyMap,
     edge_id_to_index |-> EmptyMap,
     edge_index_to_id |-> EmptyMap,
     next_node_id |-> e.next_node_id,
     next_edge_id |-> e.next_edge_id,
     pos_x |-> <<>>, pos_y |-> <<>>, vel_x |-> <<>>, vel_y |-> <<>>,
     states |-> <<>>,
     spatial |-> {},
     spatial_dirty |-> FALSE]

clear(e) ==
    [graph |-> sg_clear,
     node_id_to_index |-> EmptyMap,
     edge_id_to_index |-> EmptyMap,
     edge_index_to_id |-> EmptyMap,
     next_node_id |-> 0,
     next_edge_id |-> 0,
     pos_x |-> <<>>, pos_y |-> <<>>, vel_x |-> <<>>, vel_y |-> <<>>,
     states |-> <<>>,
     spatial |-> {},
     spatial_dirty |-> FALSE]

\* ---- exports -------------------------------------------------------------
RECURSIVE Zeros(_)
Zeros(n) == IF n = 0 THEN <<>> ELSE Append(Zeros(n - 1), 0)

\* for i in 1..=node_bound { offsets[i] += offsets[i - 1] }
RECURSIVE PrefixSum(_, _)
PrefixSum(offsets, i) ==
    IF i > Len(offsets) - 1 THEN offsets
    ELSE PrefixSum(SetAt(offsets, i, At(offsets, i) + At(offsets, i - 1)), i + 1)

\* offsets[i + 1] = graph.edges(node_index).count() for every live slot i
RECURSIVE OutCounts(_, _, _)
OutCounts(g, idxs, offsets) ==
    IF idxs = <<>> THEN offsets
    ELSE LET i == Head(idxs) IN
         OutCounts(g, Tail(idxs),
                   IF i < Len(offsets) - 1
                   THEN SetAt(offsets, i + 1, Len(At(g.nodes, i).out))
                   ELSE offsets)

\* the loop writing targets through current_offsets
RECURSIVE FillTargets(_, _, _, _, _)
FillTargets(g, refs, targets, cur, nb) ==
    IF refs = <<>> THEN targets
    ELSE LET edge   == At(g.edges, Head(refs))
             source == edge.src
             target == edge.tgt
         IN IF source < nb
            THEN LET offset == At(cur, source) IN
                 FillTargets(g, Tail(refs),
                             IF offset < Len(targets) THEN SetAt(targets, offset, target)
                                                      ELSE targets,
                             SetAt(cur, source, offset + 1), nb)
            ELSE FillTargets(g, Tail(refs), targets, cur, nb)

\* variant: the per-node counts are not summed
get_edges_csr_unsummed(e) ==
    LET nb      == node_bound(e)
        offsets == OutCounts(e.graph, Ascending(sg_node_indices(e.graph)), Zeros(nb + 1))
        targets == FillTargets(e.graph, sg_edge_references(e.graph),
                               Zeros(edge_count(e)), SubSeq(offsets, 1, nb), nb)
    IN offsets \o targets

get_edges_csr(e) ==
    LET nb      == node_bound(e)
        offsets == PrefixSum(OutCounts(e.graph, Ascending(sg_node_indices(e.graph)),
                                       Zeros(nb + 1)), 1)
        targets == FillTargets(e.graph, sg_edge_references(e.graph),
                               Zeros(edge_count(e)), SubSeq(offsets, 1, nb), nb)
    IN offsets \o targets

\* for edge in edge_references() { offsets[target + 1] += 1 }
RECURSIVE InCounts(_, _, _, _)
InCounts(g, refs, offsets, nb) ==
    IF refs = <<>> THEN offsets
    ELSE LET target == At(g.edges, Head(refs)).tgt IN
         InCounts(g, Tail(refs),
                  IF target < nb THEN SetAt(offsets, target + 1, At(offsets, target + 1) + 1)
                                 ELSE offsets,
                  nb)

RECURSIVE FillSources(_, _, _, _, _)
FillSources(g, refs, sources, cur, nb) ==
    IF refs = <<>> THEN sources
    ELSE LET edge   == At(g.edges, Head(refs))
             source == edge.src
             target == edge.tgt
         IN IF target < nb /\ At(cur, target) < Len(sources)
            THEN FillSources(g, Tail(refs), SetAt(sources, At(cur, target), source),
                             SetAt(cur, target, At(cur, target) + 1), nb)
            ELSE FillSources(g, Tail(refs), sources, cur, nb)

\* variant: the edges are grouped by source
get_inverse_edges_csr_by_source(e) == get_edges_csr(e)

get_inverse_edges_csr(e) ==
    LET nb      == node_bound(e)
        refs    == sg_edge_references(e.graph)
        offsets == PrefixSum(InCounts(e.graph, refs, Zeros(nb + 1), nb), 1)
        sources == FillSources(e.graph, refs, Zeros(edge_count(e)),
                               SubSeq(offsets, 1, nb), nb)
    IN offsets \o sources

RECURSIVE InDegrees(_, _, _, _)
InDegrees(g, refs, degrees, nb) ==
    IF refs = <<>> THEN degrees
    ELSE LET target == At(g.edges, Head(refs)).tgt IN
         InDegrees(g, Tail(refs),
                   IF target < nb
                   THEN SetAt(degrees, target * 2 + 1, At(degrees, target * 2 + 1) + 1)
                   ELSE degrees,
                   nb)

\* degrees[i * 2] = graph.edges(node_index).count() for every live slot i
RECURSIVE OutDegrees(_, _, _, _)
OutDegrees(g, idxs, degrees, nb) ==
    IF idxs = <<>> THEN degrees
    ELSE LET i == Head(idxs) IN
         OutDegrees(g, Tail(idxs),
                    IF i < nb THEN SetAt(degrees, i * 2, Len(At(g.nodes, i).out))
                              ELSE degrees,
                    nb)

get_node_degrees(e) ==
    LET nb  == node_bound(e)
        out == OutDegrees(e.graph, Ascending(sg_node_indices(e.graph)), Zeros(nb * 2), nb)
    IN InDegrees(e.graph, sg_edge_references(e.graph), out, nb)

\* the loop of get_bounds over graph.node_indices(); b = <<min_x, min_y, max_x, max_y>>
RECURSIVE BoundsLoop(_, _, _)
BoundsLoop(e, idxs, b) ==
    IF idxs = <<>> THEN b
    ELSE LET i == Head(idxs) IN
         IF i < Len(e.pos_x)
         THEN LET x == At(e.pos_x, i)
                  y == At(e.pos_y, i)
              IN BoundsLoop(e, Tail(idxs),
                            <<IF x < b[1] THEN x ELSE b[1],
                              IF y < b[2] THEN y ELSE b[2],
                              IF x > b[3] THEN x ELSE b[3],
                              IF y > b[4] THEN y ELSE b[4]>>)
         ELSE BoundsLoop(e, Tail(idxs), b)

get_bounds(e) ==
    IF sg_node_count(e.graph) = 0 THEN None
    ELSE LET b == BoundsLoop(e, Ascending(sg_node_indices(e.graph)),
                             <<Inf, Inf, NegInf, NegInf>>)
         IN IF b[1] = Inf THEN None ELSE b

\* ---- layout: what tidy_tree.rs, codebase.rs and bubble.rs share -----------
\* An f32 of the layouts is an integer count of 1/Unit; the divisions the
\* layouts make are exact on the inputs of the model (see Div).
Unit == 1024
\* 3.402_823e+38, above every coordinate a layout computes
SENTINEL == 2000000000

\* the result of the loop over the edge pairs: parent -> children in edge
\* order, the nodes with a parent, the nodes of the valid pairs
\* a pair with an id out of bounds is skipped
pair_kept_self_loops(parent, child, node_cnt) ==
    ~ (parent >= node_cnt \/ child >= node_cnt)

\* the two `continue`s of the edge loop: a pair with an id out of bounds is
\* skipped, and so is a self-loop
pair_kept(parent, child, node_cnt) ==
    /\ ~ (parent >= node_cnt \/ child >= node_cnt)
    /\ ~ (parent = child)

scan_edges(edges, node_cnt) ==
    LET RECURSIVE pairs_loop(_, _)
        pairs_loop(i, acc) ==
            IF i >= Len(edges) \div 2 THEN acc
            ELSE LET parent == At(edges, i * 2)
                     child  == At(edges, i * 2 + 1)
                 IN IF ~ pair_kept(parent, child, node_cnt)
                    THEN pairs_loop(i + 1, acc)
                    ELSE pairs_loop(i + 1,
                           [children_map |->
                                MapPut(acc.children_map, parent,
                                       Append(IF parent \in DOMAIN acc.children_map
                                              THEN acc.children_map[parent] ELSE <<>>, child)),
                            has_parent |-> acc.has_parent \cup {child},
                            all_nodes  |-> acc.all_nodes \cup {parent, child}])
    IN pairs_loop(0, [children_map |-> EmptyMap, has_parent |-> {}, all_nodes |-> {}])

\* stack is a sequence whose last element is popped; the inner loop pushes
\* the children not yet visited
count_descendants(node, children_map) ==
    LET RECURSIVE count_children(_, _, _, _, _)
        count_children(children, k, stack, visited, count) ==
            IF k > Len(children) THEN [stack |-> stack, visited |-> visited, count |-> count]
            ELSE IF children[k] \in visited
                 THEN count_children(children, k + 1, stack, visited, count)
                 ELSE count_children(children, k + 1, Append(stack, children[k]),
                                     visited \cup {children[k]}, count + 1)
        RECURSIVE count_loop(_, _, _)
        count_loop(stack, visited, count) ==
            IF stack = <<>> THEN count
            ELSE LET n    == stack[Len(stack)]
                     rest == SubSeq(stack, 1, Len(stack) - 1)
                 IN IF n \in DOMAIN children_map
                    THEN LET r == count_children(children_map[n], 1, rest, visited, count)
                         IN count_loop(r.stack, r.visited, r.count)
                    ELSE count_loop(rest, visited, count)
    IN count_loop(<<node>>, {node}, 0)

\* The root the three layouts settle on, as the set of the values the code
\* can produce: roots is collected by iterating a HashSet, whose order is
\* not fixed by the ids, and max_by_key returns the last maximum in that
\* order, so among parentless nodes with equally many descendants any one
\* can be returned.
find_root(root_id, sc) ==
    IF root_id # Vacant THEN {root_id}
    ELSE LET roots == {n \in sc.all_nodes : n \notin sc.has_parent}
         IN IF roots = {} THEN {SetMin(sc.all_nodes)}
            ELSE IF Cardinality(roots) = 1 THEN roots
            ELSE {r \in roots :
                    \A o \in roots : count_descendants(o, sc.children_map)
                                       <= count_descendants(r, sc.children_map)}

\* ---- layout/tidy_tree.rs --------------------------------------------------
TidyTreeConfig(mode) ==
    [sibling_separation |-> Unit,
     subtree_separation |-> 2 * Unit,
     level_separation   |-> 80,
     coordinate_mode    |-> mode]

\* a descent that also gives up two levels down
cycle_detected_or_deep(node_id, depth, visited) == node_id \in visited \/ depth >= 2

\* !visited.insert(node_id): the node was reached before
cycle_detected(node_id, depth, visited) == node_id \in visited

\* st = [layout_nodes, node_to_layout, visited]; at the root st is
\* [layout_nodes |-> <<>>, node_to_layout |-> EmptyMap, visited |-> {}]
RECURSIVE build_layout_tree(_, _, _, _, _)
build_layout_tree(node_id, parent_layout_idx, depth, children_map, st) ==
    IF cycle_detected(node_id, depth, st.visited) THEN st
    ELSE LET layout_idx == Len(st.layout_nodes)
             \* LayoutNode::new
             node == [slot |-> node_id, depth |-> depth, parent |-> parent_layout_idx,
                      children |-> <<>>, prelim |-> 0, modifier |-> 0,
                      thread_left |-> Vacant, thread_right |-> Vacant,
                      ancestor |-> layout_idx, shift |-> 0, change |-> 0, number |-> 0]
             st1 == [layout_nodes |-> Append(st.layout_nodes, node),
                     node_to_layout |-> MapPut(st.node_to_layout, node_id, layout_idx),
                     visited |-> st.visited \cup {node_id}]
             RECURSIVE build_children(_, _, _, _)
             build_children(children, number, stc, child_layout_indices) ==
                 IF number >= Len(children)
                 THEN [st |-> stc, child_layout_indices |-> child_layout_indices]
                 ELSE LET child_id   == At(children, number)
                          before_len == Len(stc.layout_nodes)
                          st2 == build_layout_tree(child_id, layout_idx, depth + 1,
                                                   children_map, stc)
                      IN IF Len(st2.layout_nodes) > before_len
                            /\ child_id \in DOMAIN st2.node_to_layout
                         THEN LET child_idx == st2.node_to_layout[child_id]
                                  child     == At(st2.layout_nodes, child_idx)
                              IN build_children(children, number + 1,
                                    [st2 EXCEPT !.layout_nodes =
                                        SetAt(st2.layout_nodes, child_idx,
                                              [child EXCEPT !.number = number])],
                                    Append(child_layout_indices, child_idx))
                         ELSE build_children(children, number + 1, st2, child_layout_indices)
         IN IF node_id \in DOMAIN children_map
            THEN LET r  == build_children(children_map[node_id], 0, st1, <<>>)
                     me == At(r.st.layout_nodes, layout_idx)
                 IN [r.st EXCEPT !.layout_nodes =
                        SetAt(r.st.layout_nodes, layout_idx,
                              [me EXCEPT !.children = r.child_layout_indices])]
            ELSE st1

are_siblings(a, b, nodes) ==
    At(nodes, a).parent # Vacant /\ At(nodes, a).parent = At(nodes, b).parent

next_right(v, nodes) ==
    IF At(nodes, v).children # <<>>
    THEN At(nodes, v).children[Len(At(nodes, v).children)]
    ELSE At(nodes, v).thread_right

next_left(v, nodes) ==
    IF At(nodes, v).children # <<>>
    THEN At(nodes, v).children[1]
    ELSE At(nodes, v).thread_left

\* seen holds the contour pairs the loop has been at: the pointers it follows
\* are not changed by it, so being at a pair a second time means it never
\* leaves (hung).
separate(config, left, right, nodes) ==
    LET RECURSIVE contour_loop(_, _, _, _, _, _)
        contour_loop(left_contour, right_contour, left_mod, right_mod, max_shift, seen) ==
            LET left_x      == At(nodes, left_contour).prelim + left_mod
                right_x     == At(nodes, right_contour).prelim + right_mod
                desired_sep == IF are_siblings(left_contour, right_contour, nodes)
                               THEN config.sibling_separation
                               ELSE config.subtree_separation
                overlap     == left_x + desired_sep - right_x
                new_max     == IF overlap > max_shift THEN overlap ELSE max_shift
                nl          == next_right(left_contour, nodes)
                nr          == next_left(right_contour, nodes)
            IN IF nl # Vacant /\ nr # Vacant
               THEN IF <<nl, nr>> \in seen
                    THEN [max_shift |-> new_max, hung |-> TRUE]
                    ELSE contour_loop(nl, nr,
                                      left_mod + At(nodes, left_contour).modifier,
                                      right_mod + At(nodes, right_contour).modifier,
                                      new_max, seen \cup {<<nl, nr>>})
               ELSE [max_shift |-> new_max, hung |-> FALSE]
    IN contour_loop(left, right, 0, 0, 0, {<<left, right>>})

is_ancestor_of(ancestor, v, nodes) == At(nodes, ancestor).depth <= At(nodes, v).depth

IMax(a, b) == IF a >= b THEN a ELSE b

\* shift / subtrees
Div(a, b) == a \div b

move_subtree(wl, wr, shift, nodes) ==
    LET subtrees    == IMax(At(nodes, wr).number - At(nodes, wl).number, 1)
        per_subtree == Div(shift, subtrees)
        n1 == SetAt(nodes, wr, [At(nodes, wr) EXCEPT !.change = @ - per_subtree,
                                                     !.shift = @ + shift])
        n2 == SetAt(n1, wl, [At(n1, wl) EXCEPT !.change = @ + per_subtree])
    IN SetAt(n2, wr, [At(n2, wr) EXCEPT !.prelim = @ + shift, !.modifier = @ + shift])

\* The loop of apportion; c holds its local variables. The pointers it
\* follows are not changed by it, so the pair (v_inner_right, v_inner_left)
\* coming back means it never leaves (hung).
apportion(config, v, left_sibling, default_ancestor, nodes) ==
    LET RECURSIVE apportion_loop(_, _, _)
        apportion_loop(nodes_in, c, seen) ==
            LET next_ir == next_right(c.v_inner_right, nodes_in)
                next_il == next_left(c.v_inner_left, nodes_in)
            IN IF next_ir = Vacant \/ next_il = Vacant
               THEN [nodes |-> nodes_in, c |-> c, hung |-> FALSE]
               ELSE IF <<next_ir, next_il>> \in seen
               THEN [nodes |-> nodes_in, c |-> c, hung |-> TRUE]
               ELSE
               LET ol == IF next_left(c.v_outer_left, nodes_in) # Vacant
                         THEN next_left(c.v_outer_left, nodes_in) ELSE c.v_outer_left
                   or == IF next_right(c.v_outer_right, nodes_in) # Vacant
                         THEN next_right(c.v_outer_right, nodes_in) ELSE c.v_outer_right
                   n1 == SetAt(nodes_in, or, [At(nodes_in, or) EXCEPT !.ancestor = v])
                   shift == (At(n1, next_ir).prelim + c.s_inner_right)
                              - (At(n1, next_il).prelim + c.s_inner_left)
                              + config.subtree_separation
                   ancestor_v    == At(n1, v).ancestor
                   move_ancestor == IF is_ancestor_of(ancestor_v, v, n1) THEN ancestor_v
                                                                         ELSE default_ancestor
                   n2  == IF shift > 0 THEN move_subtree(move_ancestor, v, shift, n1) ELSE n1
                   sil == IF shift > 0 THEN c.s_inner_left + shift ELSE c.s_inner_left
                   sol == IF shift > 0 THEN c.s_outer_left + shift ELSE c.s_outer_left
               IN apportion_loop(n2,
                     [v_inner_right |-> next_ir, v_outer_right |-> or,
                      v_inner_left |-> next_il, v_outer_left |-> ol,
                      s_inner_right |-> c.s_inner_right + At(n2, next_ir).modifier,
                      s_inner_left  |-> sil + At(n2, next_il).modifier,
                      s_outer_left  |-> sol + At(n2, ol).modifier,
                      s_outer_right |-> c.s_outer_right + At(n2, or).modifier],
                     seen \cup {<<next_ir, next_il>>})
        leftmost == IF At(nodes, v).parent # Vacant
                    THEN (IF At(nodes, At(nodes, v).parent).children # <<>>
                          THEN At(nodes, At(nodes, v).parent).children[1] ELSE v)
                    ELSE v
        \* "Thread the contours", on what the loop left: r = [nodes, c, hung]
        thread_contours(r) ==
            LET c  == r.c
                t1 == next_right(c.v_inner_right, r.nodes) # Vacant
                         /\ next_right(c.v_outer_right, r.nodes) = Vacant
                n1 == IF t1
                      THEN SetAt(r.nodes, c.v_outer_right,
                                 [At(r.nodes, c.v_outer_right) EXCEPT
                                     !.thread_right = next_right(c.v_inner_right, r.nodes),
                                     !.modifier = @ + c.s_inner_right - c.s_outer_right])
                      ELSE r.nodes
                t2 == next_left(c.v_inner_left, n1) # Vacant
                         /\ next_left(c.v_outer_left, n1) = Vacant
                n2 == IF t2
                      THEN SetAt(n1, c.v_outer_left,
                                 [At(n1, c.v_outer_left) EXCEPT
                                     !.thread_left = next_left(c.v_inner_left, n1),
                                     !.modifier = @ + c.s_inner_left - c.s_outer_left])
                      ELSE n1
            IN [nodes |-> n2, default_ancestor |-> IF t2 THEN v ELSE default_ancestor,
                hung |-> r.hung]
    IN thread_contours(
          apportion_loop(nodes,
             [v_inner_right |-> left_sibling, v_outer_right |-> left_sibling,
              v_inner_left  |-> v, v_outer_left |-> leftmost,
              s_inner_right |-> At(nodes, left_sibling).modifier,
              s_outer_right |-> At(nodes, left_sibling).modifier,
              s_inner_left  |-> At(nodes, v).modifier,
              s_outer_left  |-> At(nodes, leftmost).modifier],
             {<<left_sibling, v>>}))

execute_shifts(v, nodes) ==
    LET children == At(nodes, v).children
        \* for &child in children.iter().rev()
        RECURSIVE shifts_loop(_, _, _, _)
        shifts_loop(k, shift, change, ns) ==
            IF k < 1 THEN ns
            ELSE LET child   == children[k]
                     n1      == SetAt(ns, child, [At(ns, child) EXCEPT
                                                    !.prelim = @ + shift, !.modifier = @ + shift])
                     change1 == change + At(n1, child).change
                 IN shifts_loop(k - 1, shift + At(n1, child).shift + change1, change1, n1)
    IN shifts_loop(Len(children), 0, 0, nodes)

\* the parent put over its first child
midpoint_over_first(first_child_prelim, last_child_prelim) == first_child_prelim

\* (first_child_prelim + last_child_prelim) / 2.0
midpoint(first_child_prelim, last_child_prelim) ==
    Div(first_child_prelim + last_child_prelim, 2)

\* w = [nodes, hung, exact]: the layout nodes, whether a contour walk hung,
\* whether every division so far was exact
RECURSIVE first_walk(_, _, _)
first_walk(config, v, w) ==
    LET children == At(w.nodes, v).children
        RECURSIVE walk_children(_, _)
        walk_children(k, wk) ==
            IF k > Len(children) THEN wk
            ELSE walk_children(k + 1, first_walk(config, children[k], wk))
        \* the loop "Position children and merge contours", i is 0-based
        RECURSIVE position_children(_, _, _)
        position_children(i, default_ancestor, wp) ==
            IF i >= Len(children) THEN wp
            ELSE IF i = 0 THEN position_children(1, default_ancestor, wp)
            ELSE LET child        == At(children, i)
                     left_sibling == At(children, i - 1)
                     shifted(sep) ==
                         SetAt(wp.nodes, child,
                               [At(wp.nodes, child) EXCEPT !.prelim = @ + sep.max_shift,
                                                           !.modifier = @ + sep.max_shift])
                     merged(sep, ap) ==
                         position_children(i + 1, ap.default_ancestor,
                                           [wp EXCEPT !.nodes = ap.nodes,
                                                      !.hung = @ \/ sep.hung \/ ap.hung])
                     separated(sep) ==
                         merged(sep, apportion(config, child, left_sibling,
                                               default_ancestor, shifted(sep)))
                 IN separated(separate(config, left_sibling, child, wp.nodes))
        \* "Center parent over children", on the shifted nodes n3
        centre_parent(n3, hung, exact) ==
            LET first_child_prelim == At(n3, children[1]).prelim
                last_child_prelim  == At(n3, children[Len(children)]).prelim
            IN [nodes |-> SetAt(n3, v, [At(n3, v) EXCEPT !.prelim =
                                            midpoint(first_child_prelim, last_child_prelim)]),
                hung  |-> hung,
                exact |-> exact /\ (first_child_prelim + last_child_prelim) % 2 = 0]
        shift_children(w2) == centre_parent(execute_shifts(v, w2.nodes), w2.hung, w2.exact)
    IN
    IF children = <<>>
    THEN [w EXCEPT !.nodes = SetAt(w.nodes, v, [At(w.nodes, v) EXCEPT !.prelim = 0])]
    ELSE shift_children(position_children(0, children[1], walk_children(1, w)))

RECURSIVE second_walk_collect(_, _, _, _)
second_walk_collect(v, modifier_sum, nodes, final_x) ==
    LET children == At(nodes, v).children
        sum      == modifier_sum + At(nodes, v).modifier
        RECURSIVE second_walk_children(_, _)
        second_walk_children(k, fx) ==
            IF k > Len(children) THEN fx
            ELSE second_walk_children(k + 1,
                                      second_walk_collect(children[k], sum, nodes, fx))
    IN second_walk_children(1, SetAt(final_x, v, At(nodes, v).prelim + modifier_sum))

\* f32::EPSILON (1.19e-7) is below one count of 1/Unit
EPSILON == 0

\* angles are counted in 1/Turn of a full turn (TAU)
Turn == 4096

\* f32::cos and f32::sin of an angle counted in 1/Turn; the result counts
\* 1/Unit.  Within the first quarter turn cos x is taken as
\* (pi^2 - 4 x^2) / (pi^2 + x^2), off by less than 2/1000, and the other
\* quarters follow by symmetry.
cos(a) ==
    LET r == a % Turn
        q == Turn \div 4
        \* the distance to the nearest half turn, and the sign there
        folded == IF r <= 2 * q THEN r ELSE Turn - r
        first(t) == (Unit * (q * q - t * t)) \div (q * q + (t * t) \div 4)
    IN IF folded <= q THEN first(folded) ELSE 0 - first(2 * q - folded)

sin(a) == cos(a + 3 * (Turn \div 4))

\* f32::sqrt on counts of 1: the largest r with r * r <= n
sqrt(n) ==
    LET RECURSIVE sqrt_search(_, _)
        sqrt_search(lo, hi) ==
            IF lo >= hi THEN lo
            ELSE LET mid == (lo + hi + 1) \div 2 IN
                 IF mid * mid <= n THEN sqrt_search(mid, hi) ELSE sqrt_search(lo, mid - 1)
    IN IF n <= 0 THEN 0 ELSE sqrt_search(0, IF n < 46340 THEN n ELSE 46340)

RECURSIVE Repeat(_, _)
Repeat(x, n) == IF n = 0 THEN <<>> ELSE Append(Repeat(x, n - 1), x)

RECURSIVE SeqMin(_, _, _)
SeqMin(s, k, m) == IF k > Len(s) THEN m ELSE SeqMin(s, k + 1, IF s[k] < m THEN s[k] ELSE m)

RECURSIVE SeqMax(_, _, _)
SeqMax(s, k, m) == IF k > Len(s) THEN m ELSE SeqMax(s, k + 1, IF s[k] > m THEN s[k] ELSE m)

\* out = [positions_x, positions_y, laid_out]
RECURSIVE write_linear(_, _, _, _, _, _, _)
write_linear(config, layout_nodes, final_x, x_offset, node_cnt, layout_idx, out) ==
    IF layout_idx >= Len(layout_nodes) THEN out
    ELSE LET node == At(layout_nodes, layout_idx)
             slot == node.slot
         IN write_linear(config, layout_nodes, final_x, x_offset, node_cnt, layout_idx + 1,
               IF slot < node_cnt
               THEN [positions_x |-> SetAt(out.positions_x, slot,
                                       (At(final_x, layout_idx) + x_offset)
                                          * config.level_separation),
                     positions_y |-> SetAt(out.positions_y, slot,
                                       node.depth * Unit * config.level_separation),
                     laid_out |-> out.laid_out + 1]
               ELSE out)

RECURSIVE write_radial(_, _, _, _, _, _, _, _)
write_radial(config, layout_nodes, final_x, min_x, divisor, node_cnt, layout_idx, out) ==
    IF layout_idx >= Len(layout_nodes) THEN out
    ELSE LET node == At(layout_nodes, layout_idx)
             slot == node.slot
             normalized_x == At(final_x, layout_idx) - min_x
             angle  == (normalized_x * Turn) \div divisor
             radius == (node.depth + 1) * config.level_separation
         IN write_radial(config, layout_nodes, final_x, min_x, divisor, node_cnt,
               layout_idx + 1,
               IF slot < node_cnt
               THEN [positions_x |-> SetAt(out.positions_x, slot, radius * cos(angle)),
                     positions_y |-> SetAt(out.positions_y, slot, radius * sin(angle)),
                     laid_out |-> out.laid_out + 1]
               ELSE out)

\* only the root is put at the centre
write_centre_root_only(layout_nodes, node_cnt, layout_idx, out) ==
    IF At(layout_nodes, 0).slot < node_cnt
    THEN [positions_x |-> SetAt(out.positions_x, At(layout_nodes, 0).slot, 0),
          positions_y |-> SetAt(out.positions_y, At(layout_nodes, 0).slot, 0),
          laid_out |-> out.laid_out + 1]
    ELSE out

RECURSIVE write_centre(_, _, _, _)
write_centre(layout_nodes, node_cnt, layout_idx, out) ==
    IF layout_idx >= Len(layout_nodes) THEN out
    ELSE LET slot == At(layout_nodes, layout_idx).slot IN
         write_centre(layout_nodes, node_cnt, layout_idx + 1,
               IF slot < node_cnt
               THEN [positions_x |-> SetAt(out.positions_x, slot, 0),
                     positions_y |-> SetAt(out.positions_y, slot, 0),
                     laid_out |-> out.laid_out + 1]
               ELSE out)

\* A TidyTreeResult, with what the call went through next to it: the root,
\* the layout nodes after the first walk, the final x of each, whether a
\* contour walk hung and whether the divisions were exact.
TidyTreeResult(px, py, laid_out, root, layout_nodes, final_x, hung, exact) ==
    [positions_x |-> px, positions_y |-> py, node_count |-> laid_out,
     root |-> root, layout_nodes |-> layout_nodes, final_x |-> final_x,
     hung |-> hung, exact |-> exact]

empty_result(node_cnt) ==
    TidyTreeResult(Repeat(SENTINEL, node_cnt), Repeat(SENTINEL, node_cnt), 0,
                   Vacant, <<>>, <<>>, FALSE, TRUE)

\* compute from "Build layout nodes via DFS from root" on
compute_from_root(config, node_cnt, sc, root) ==
    LET blank == [positions_x |-> Repeat(SENTINEL, node_cnt),
                  positions_y |-> Repeat(SENTINEL, node_cnt),
                  laid_out |-> 0]
        result(out, w, final_x, x_range) ==
            TidyTreeResult(out.positions_x, out.positions_y, out.laid_out, root, w.nodes,
                           final_x, w.hung,
                           w.exact /\ (config.coordinate_mode = "Linear" => x_range % 2 = 0))
        \* "Convert to final positions"
        convert(st, w, final_x, min_x, max_x) ==
            LET x_range == max_x - min_x
                divisor == x_range + config.sibling_separation
            IN IF config.coordinate_mode = "Linear"
               THEN result(write_linear(config, w.nodes, final_x, 0 - (min_x + Div(x_range, 2)),
                                        node_cnt, 0, blank),
                           w, final_x, x_range)
               ELSE IF x_range > 0 /\ divisor > EPSILON
               THEN LET slot == At(w.nodes, st.node_to_layout[root]).slot
                        centred(o) ==
                            IF root \in DOMAIN st.node_to_layout /\ slot < node_cnt
                            THEN [o EXCEPT !.positions_x = SetAt(o.positions_x, slot, 0),
                                           !.positions_y = SetAt(o.positions_y, slot, 0)]
                            ELSE o
                    IN result(centred(write_radial(config, w.nodes, final_x, min_x, divisor,
                                                   node_cnt, 0, blank)),
                              w, final_x, x_range)
               ELSE result(write_centre(w.nodes, node_cnt, 0, blank), w, final_x, x_range)
        collected(st, w, final_x) ==
            convert(st, w, final_x, SeqMin(final_x, 1, final_x[1]),
                    SeqMax(final_x, 1, final_x[1]))
        walked(st, w) ==
            collected(st, w, second_walk_collect(0, 0, w.nodes, Repeat(0, Len(w.nodes))))
        built(st) ==
            IF st.layout_nodes = <<>> THEN empty_result(node_cnt)
            ELSE walked(st, first_walk(config, 0, [nodes |-> st.layout_nodes,
                                                   hung |-> FALSE, exact |-> TRUE]))
    IN built(build_layout_tree(root, Vacant, 0, sc.children_map,
                [layout_nodes |-> <<>>, node_to_layout |-> EmptyMap, visited |-> {}]))

\* TidyTreeLayout::compute: the results the call can give (one for each root
\* find_root can settle on)
compute(config, node_cnt, edges, root_id) ==
    IF node_cnt = 0 \/ edges = <<>> THEN {empty_result(node_cnt)}
    ELSE IF Len(edges) % 2 # 0 THEN {empty_result(node_cnt)}
    ELSE LET sc == scan_edges(edges, node_cnt) IN
         IF sc.all_nodes = {} THEN {empty_result(node_cnt)}
         ELSE {compute_from_root(config, node_cnt, sc, root) : root \in find_root(root_id, sc)}

\* ---- layout/bubble.rs -----------------------------------------------------
\* radii and the coordinates of codebase.rs count 1/LUnit
LUnit == 16

BubbleConfig == [base_radius |-> 10 * LUnit, padding |-> 5 * LUnit]

\* total_area / (PI * packing_efficiency) with packing_efficiency 0.82: PI
\* cancels, 1 / 0.82 = 50 / 41
enclosing(nodes, children) ==
    LET RECURSIVE sum_of_squares(_)
        sum_of_squares(k) ==
            IF k > Len(children) THEN 0
            ELSE At(nodes, children[k]).radius * At(nodes, children[k]).radius
                   + sum_of_squares(k + 1)
    IN sqrt((sum_of_squares(1) * 50) \div 41)

\* st = [tree_nodes, slot_to_tree, visited]; at the root st is
\* [tree_nodes |-> <<>>, slot_to_tree |-> EmptyMap, visited |-> {}]
RECURSIVE build_tree(_, _, _, _)
build_tree(node_id, node_cnt, children_map, st) ==
    IF node_id \in st.visited THEN st
    ELSE LET st0 == [st EXCEPT !.visited = @ \cup {node_id}] IN
         IF node_id >= node_cnt THEN st0
         ELSE LET tree_idx == Len(st.tree_nodes)
                  st1 == [tree_nodes |-> Append(st.tree_nodes,
                                            [slot |-> node_id, children |-> <<>>,
                                             radius |-> 0, depth |-> 0]),
                          slot_to_tree |-> MapPut(st.slot_to_tree, node_id, tree_idx),
                          visited |-> st0.visited]
                  RECURSIVE build_tree_children(_, _, _, _)
                  build_tree_children(children, k, stc, child_tree_indices) ==
                      IF k > Len(children)
                      THEN [st |-> stc, child_tree_indices |-> child_tree_indices]
                      ELSE LET child_id   == children[k]
                               before_len == Len(stc.tree_nodes)
                               st2 == build_tree(child_id, node_cnt, children_map, stc)
                           IN build_tree_children(children, k + 1, st2,
                                 IF Len(st2.tree_nodes) > before_len
                                    /\ child_id \in DOMAIN st2.slot_to_tree
                                 THEN Append(child_tree_indices, st2.slot_to_tree[child_id])
                                 ELSE child_tree_indices)
              IN IF node_id \in DOMAIN children_map
                 THEN LET r  == build_tree_children(children_map[node_id], 1, st1, <<>>)
                          me == At(r.st.tree_nodes, tree_idx)
                      IN [r.st EXCEPT !.tree_nodes =
                             SetAt(r.st.tree_nodes, tree_idx,
                                   [me EXCEPT !.children = r.child_tree_indices])]
                 ELSE st1

\* a BFS from the root; queue is a sequence popped at the front
compute_depths(tree_nodes) ==
    LET RECURSIVE depths_children(_, _, _, _, _)
        depths_children(children, k, depth, nodes, queue) ==
            IF k > Len(children) THEN [tree_nodes |-> nodes, queue |-> queue]
            ELSE depths_children(children, k + 1, depth,
                    SetAt(nodes, children[k],
                          [At(nodes, children[k]) EXCEPT !.depth = depth + 1]),
                    Append(queue, children[k]))
        RECURSIVE depths_loop(_, _)
        depths_loop(nodes, queue) ==
            IF queue = <<>> THEN nodes
            ELSE LET idx == Head(queue)
                     r   == depths_children(At(nodes, idx).children, 1,
                                            At(nodes, idx).depth, nodes, Tail(queue))
                 IN depths_loop(r.tree_nodes, r.queue)
    IN IF tree_nodes = <<>> THEN tree_nodes
       ELSE depths_loop(SetAt(tree_nodes, 0, [At(tree_nodes, 0) EXCEPT !.depth = 0]), <<0>>)

\* compute_radii of bubble.rs
RECURSIVE bubble_radii(_, _, _)
bubble_radii(idx, nodes, config) ==
    LET children == At(nodes, idx).children
        RECURSIVE radii_children(_, _)
        radii_children(k, ns) ==
            IF k > Len(children) THEN ns
            ELSE radii_children(k + 1, bubble_radii(children[k], ns, config))
        n1 == radii_children(1, nodes)
    IN IF children = <<>>
       THEN SetAt(n1, idx, [At(n1, idx) EXCEPT !.radius = config.base_radius])
       ELSE SetAt(n1, idx,
                  [At(n1, idx) EXCEPT !.radius =
                      IMax(enclosing(n1, children), config.base_radius) + config.padding])

\* out = [well_radii, depths]
RECURSIVE write_bubbles(_, _, _, _)
write_bubbles(tree_nodes, node_cnt, k, out) ==
    IF k > Len(tree_nodes) THEN out
    ELSE LET node == tree_nodes[k] IN
         write_bubbles(tree_nodes, node_cnt, k + 1,
            IF node.slot < node_cnt
            THEN [well_radii |-> SetAt(out.well_radii, node.slot, node.radius),
                  depths |-> SetAt(out.depths, node.slot, node.depth)]
            ELSE out)

\* the Vec<f32> the call returns, with the root and the tree it went through
BubbleData(well_radii, depths, root, tree_nodes) ==
    [data |-> well_radii \o depths, root |-> root, tree_nodes |-> tree_nodes]

bubble_defaults(node_cnt, config) ==
    BubbleData(Repeat(config.base_radius, node_cnt), Repeat(0, node_cnt), Vacant, <<>>)

bubble_from_root(node_cnt, sc, root, config) ==
    LET st == build_tree(root, node_cnt, sc.children_map,
                         [tree_nodes |-> <<>>, slot_to_tree |-> EmptyMap, visited |-> {}]) IN
    IF st.tree_nodes = <<>> THEN bubble_defaults(node_cnt, config)
    ELSE LET nodes == bubble_radii(0, compute_depths(st.tree_nodes), config)
             out   == write_bubbles(nodes, node_cnt, 1,
                         [well_radii |-> Repeat(config.base_radius, node_cnt),
                          depths |-> Repeat(0, node_cnt)])
         IN BubbleData(out.well_radii, out.depths, root, nodes)

\* compute_bubble_data: the results the call can give
compute_bubble_data(containment_edges, node_cnt, root_id, config) ==
    IF node_cnt = 0 THEN {BubbleData(<<>>, <<>>, Vacant, <<>>)}
    ELSE IF Len(containment_edges) < 2 \/ Len(containment_edges) % 2 # 0
    THEN {bubble_defaults(node_cnt, config)}
    ELSE LET sc == scan_edges(containment_edges, node_cnt) IN
         IF sc.all_nodes = {} THEN {bubble_defaults(node_cnt, config)}
         ELSE {bubble_from_root(node_cnt, sc, root, config) : root \in find_root(root_id, sc)}

\* ---- layout/codebase.rs ---------------------------------------------------
\* impl From<u8> for NodeCategory
NodeCategory(v) ==
    IF v = 0 THEN "Repository"
    ELSE IF v = 1 THEN "Directory"
    ELSE IF v = 2 THEN "File"
    ELSE IF v = 3 THEN "Symbol"
    ELSE "Other"

CodebaseLayoutConfig ==
    [directory_padding |-> 15 * LUnit,
     file_padding      |-> 8 * LUnit,
     symbol_radius     |-> 5 * LUnit,
     file_radius       |-> 12 * LUnit,
     directory_radius  |-> 25 * LUnit]

\* TAU * (1 - 1 / ((1 + sqrt 5) / 2)) = 0.381966 of a turn
golden_angle == 1565

base_radius(category, config) ==
    IF category = "Repository" THEN config.directory_radius * 2
    ELSE IF category = "Directory" THEN config.directory_radius
    ELSE IF category = "File" THEN config.file_radius
    ELSE config.symbol_radius

padding_of(category, config) ==
    IF category \in {"Repository", "Directory"} THEN config.directory_padding
    ELSE config.file_padding

\* st = [layout_nodes, node_to_layout, visited]; at the root st is
\* [layout_nodes |-> <<>>, node_to_layout |-> EmptyMap, visited |-> {}]
RECURSIVE codebase_build_layout_tree(_, _, _, _, _)
codebase_build_layout_tree(node_id, node_categories, node_cnt, children_map, st) ==
    IF node_id \in st.visited THEN st
    ELSE LET st0 == [st EXCEPT !.visited = @ \cup {node_id}] IN
         IF node_id >= Len(node_categories) /\ node_id >= node_cnt THEN st0
         ELSE LET category == IF node_id < Len(node_categories)
                              THEN NodeCategory(At(node_categories, node_id))
                              ELSE "Other"
                  layout_idx == Len(st.layout_nodes)
                  st1 == [layout_nodes |-> Append(st.layout_nodes,
                                              [slot |-> node_id, category |-> category,
                                               children |-> <<>>, radius |-> 0,
                                               x |-> 0, y |-> 0]),
                          node_to_layout |-> MapPut(st.node_to_layout, node_id, layout_idx),
                          visited |-> st0.visited]
                  RECURSIVE build_children(_, _, _, _)
                  build_children(children, k, stc, child_layout_indices) ==
                      IF k > Len(children)
                      THEN [st |-> stc, child_layout_indices |-> child_layout_indices]
                      ELSE LET child_id   == children[k]
                               before_len == Len(stc.layout_nodes)
                               st2 == codebase_build_layout_tree(child_id, node_categories,
                                                                 node_cnt, children_map, stc)
                           IN build_children(children, k + 1, st2,
                                 IF Len(st2.layout_nodes) > before_len
                                    /\ child_id \in DOMAIN st2.node_to_layout
                                 THEN Append(child_layout_indices, st2.node_to_layout[child_id])
                                 ELSE child_layout_indices)
              IN IF node_id \in DOMAIN children_map
                 THEN LET r  == build_children(children_map[node_id], 1, st1, <<>>)
                          me == At(r.st.layout_nodes, layout_idx)
                      IN [r.st EXCEPT !.layout_nodes =
                             SetAt(r.st.layout_nodes, layout_idx,
                                   [me EXCEPT !.children = r.child_layout_indices])]
                 ELSE st1

RECURSIVE codebase_compute_radii(_, _, _)
codebase_compute_radii(idx, nodes, config) ==
    LET children == At(nodes, idx).children
        RECURSIVE radii_children(_, _)
        radii_children(k, ns) ==
            IF k > Len(children) THEN ns
            ELSE radii_children(k + 1, codebase_compute_radii(children[k], ns, config))
        n1 == radii_children(1, nodes)
        me == At(n1, idx)
    IN IF children = <<>>
       THEN SetAt(n1, idx, [me EXCEPT !.radius = base_radius(me.category, config)])
       ELSE SetAt(n1, idx,
                  [me EXCEPT !.radius =
                      IMax(enclosing(n1, children), base_radius(me.category, config))
                        + padding_of(me.category, config)])

MoveTo(nodes, idx, x, y) == SetAt(nodes, idx, [At(nodes, idx) EXCEPT !.x = x, !.y = y])

clamp_to_parent(child_idx, child_radius, parent_x, parent_y, available_radius, nodes) ==
    LET dx == At(nodes, child_idx).x - parent_x
        dy == At(nodes, child_idx).y - parent_y
        dist == sqrt(dx * dx + dy * dy)
        max_dist == IMax(available_radius - child_radius, 0)
    IN IF dist > max_dist /\ dist > EPSILON
       THEN MoveTo(nodes, child_idx, parent_x + (dx * max_dist) \div dist,
                                     parent_y + (dy * max_dist) \div dist)
       ELSE nodes

\* children is a sequence of <<index, radius>>
resolve_overlaps(children, nodes, parent_x, parent_y, available_radius) ==
    LET \* the pair (i, j) pushed apart along the line of the centres
        push_apart(i, j, ns, dist_sq) ==
            LET ci == children[i][1]
                ri == children[i][2]
                cj == children[j][1]
                rj == children[j][2]
                dx == At(ns, cj).x - At(ns, ci).x
                dy == At(ns, cj).y - At(ns, ci).y
                dist == sqrt(dist_sq)
                push == (ri + rj - dist) \div 2
                px   == (dx * push) \div dist
                py   == (dy * push) \div dist
                n1 == MoveTo(ns, ci, At(ns, ci).x - px, At(ns, ci).y - py)
                n2 == MoveTo(n1, cj, At(n1, cj).x + px, At(n1, cj).y + py)
                n3 == clamp_to_parent(ci, ri, parent_x, parent_y, available_radius, n2)
            IN clamp_to_parent(cj, rj, parent_x, parent_y, available_radius, n3)
        RECURSIVE overlaps_loop(_, _, _, _)
        overlaps_loop(round, i, j, ns) ==
            LET n == Len(children) IN
            IF round >= 3 THEN ns
            ELSE IF i > n THEN overlaps_loop(round + 1, 1, 2, ns)
            ELSE IF j > n THEN overlaps_loop(round, i + 1, i + 2, ns)
            ELSE LET dx == At(ns, children[j][1]).x - At(ns, children[i][1]).x
                     dy == At(ns, children[j][1]).y - At(ns, children[i][1]).y
                     dist_sq  == dx * dx + dy * dy
                     min_dist == children[i][2] + children[j][2]
                 IN IF dist_sq < min_dist * min_dist /\ dist_sq > EPSILON
                    THEN overlaps_loop(round, i, j + 1, push_apart(i, j, ns, dist_sq))
                    ELSE overlaps_loop(round, i, j + 1, ns)
    IN IF Len(children) <= 1 THEN nodes ELSE overlaps_loop(0, 1, 2, nodes)

RECURSIVE assign_positions(_, _, _)
assign_positions(idx, nodes, config) ==
    LET children == At(nodes, idx).children
        me       == At(nodes, idx)
        padding  == padding_of(me.category, config)
        available_radius == IMax(me.radius - padding, 0)
        \* sort_by on the radius, largest first; the sort is stable
        RECURSIVE insert_by_radius(_, _)
        insert_by_radius(sorted, c) ==
            IF sorted = <<>> THEN <<c>>
            ELSE IF Head(sorted)[2] >= c[2]
                 THEN <<Head(sorted)>> \o insert_by_radius(Tail(sorted), c)
                 ELSE <<c>> \o sorted
        RECURSIVE sort_children(_, _)
        sort_children(k, sorted) ==
            IF k > Len(children) THEN sorted
            ELSE sort_children(k + 1,
                    insert_by_radius(sorted, <<children[k], At(nodes, children[k]).radius>>))
        \* t.sqrt(), counting 1/Unit, for the i-th of n children
        sqrt_t(i, n) ==
            IF n <= 2 THEN sqrt(((i + 1) * Unit * Unit) \div (n + 1))
            ELSE sqrt(((2 * i + 1) * Unit * Unit) \div (2 * n))
        RECURSIVE place_children(_, _, _)
        place_children(sorted_children, i, ns) ==
            IF i >= Len(sorted_children) THEN ns
            ELSE LET child_idx    == At(sorted_children, i)[1]
                     child_radius == At(sorted_children, i)[2]
                     placement_radius ==
                         (IMax(available_radius - child_radius, 0)
                            * sqrt_t(i, Len(sorted_children))) \div Unit
                     angle == i * golden_angle
                     limit == me.radius - padding \div 2
                     reach == IF placement_radius + child_radius > limit
                                 /\ placement_radius > EPSILON
                              THEN IMax(limit - child_radius, 0)
                              ELSE placement_radius
                     n1 == MoveTo(ns, child_idx, me.x + (reach * cos(angle)) \div Unit,
                                                 me.y + (reach * sin(angle)) \div Unit)
                 IN place_children(sorted_children, i + 1,
                                   assign_positions(child_idx, n1, config))
    IN IF children = <<>> THEN nodes
       ELSE IF Len(children) = 1
       THEN assign_positions(children[1], MoveTo(nodes, children[1], me.x, me.y), config)
       ELSE LET sorted_children == sort_children(1, <<>>)
                placed == place_children(sorted_children, 0, nodes)
            IN resolve_overlaps(sorted_children, placed, me.x, me.y, available_radius)

\* positions is the interleaved [x0, y0, x1, y1, ...]
RECURSIVE write_positions(_, _, _)
write_positions(layout_nodes, k, positions) ==
    IF k > Len(layout_nodes) THEN positions
    ELSE LET node == layout_nodes[k]
             idx  == node.slot * 2
         IN write_positions(layout_nodes, k + 1,
               IF idx + 1 < Len(positions)
               \* * config.spread_factor, 1.5
               THEN SetAt(SetAt(positions, idx, (node.x * 3) \div 2), idx + 1,
                          (node.y * 3) \div 2)
               ELSE positions)

\* the Vec<f32> the call returns, with the root and the tree it went through
CodebaseLayout(positions, root, layout_nodes) ==
    [positions |-> positions, root |-> root, layout_nodes |-> layout_nodes]

codebase_from_root(node_categories, node_cnt, sc, root, config) ==
    LET st == codebase_build_layout_tree(root, node_categories, node_cnt, sc.children_map,
                                         [layout_nodes |-> <<>>, node_to_layout |-> EmptyMap, visited |-> {}])
        blank == Repeat(SENTINEL, node_cnt * 2)
    IN IF st.layout_nodes = <<>> THEN CodebaseLayout(blank, Vacant, <<>>)
       ELSE LET sized  == codebase_compute_radii(0, st.layout_nodes, config)
                placed == assign_positions(0, MoveTo(sized, 0, 0, 0), config)
            IN CodebaseLayout(write_positions(placed, 1, blank), root, placed)

\* compute_codebase_layout: the results the call can give
compute_codebase_layout(containment_edges, node_categories, node_cnt, root_id, config) ==
    IF node_cnt = 0 THEN {CodebaseLayout(<<>>, Vacant, <<>>)}
    ELSE IF Len(containment_edges) % 2 # 0
    THEN {CodebaseLayout(Repeat(SENTINEL, node_cnt * 2), Vacant, <<>>)}
    ELSE LET sc == scan_edges(containment_edges, node_cnt) IN
         IF sc.all_nodes = {}
         THEN {CodebaseLayout(Repeat(SENTINEL, node_cnt * 2), Vacant, <<>>)}
         ELSE {codebase_from_root(node_categories, node_cnt, sc, root, config) :
                 root \in find_root(root_id, sc)}

\* ---- layout/community.rs --------------------------------------------------
\* Weights are whole numbers.  An AdjacencyList holds m2 = 2 * total_weight in
\* place of total_weight.  A resolution is a fraction <<rn, rd>>.  A
\* modularity or a gain is kept as its numerator over scale = m2 * m2 * rd of
\* the original graph, so that the comparisons the code makes on f64 values
\* are made on whole numbers.
max_levels == 20
max_iterations == 100

\* min_modularity_gain is 1 / MinGainInverse
MinGainInverse == 10000

AdjacencyList(neighbors, m2, degrees) ==
    [neighbors |-> neighbors, m2 |-> m2, degree |-> degrees]

IMin(a, b) == IF a <= b THEN a ELSE b

RECURSIVE Iota(_)
Iota(n) == IF n = 0 THEN <<>> ELSE Append(Iota(n - 1), n - 1)

from_csr(csr, n) ==
    LET offsets == SubSeq(csr, 1, n + 1)
        targets == SubSeq(csr, n + 2, Len(csr))
        \* the body of the edge loop: the edge src -> tgt of weight 1, entered
        \* at both ends
        add_both_ways(adj, src, tgt) ==
            LET n1 == SetAt(adj.neighbors, src, Append(At(adj.neighbors, src), <<tgt, 1>>))
                d1 == SetAt(adj.degree, src, At(adj.degree, src) + 1)
                n2 == SetAt(n1, tgt, Append(At(n1, tgt), <<src, 1>>))
                d2 == SetAt(d1, tgt, At(d1, tgt) + 1)
            IN AdjacencyList(n2, adj.m2 + 2, d2)
        RECURSIVE from_csr_row(_, _, _, _)
        from_csr_row(src, i, end, adj) ==
            IF i >= end THEN adj
            ELSE LET tgt == At(targets, i) IN
                 from_csr_row(src, i + 1, end,
                              IF tgt >= n THEN adj ELSE add_both_ways(adj, src, tgt))
        RECURSIVE from_csr_rows(_, _)
        from_csr_rows(src, adj) ==
            IF src >= n THEN adj
            ELSE from_csr_rows(src + 1,
                    from_csr_row(src, At(offsets, src),
                                 IMin(At(offsets, src + 1), Len(targets)), adj))
    IN IF Len(csr) <= n + 1
       THEN AdjacencyList(Repeat(<<>>, n), 0, Repeat(0, n))
       ELSE from_csr_rows(0, AdjacencyList(Repeat(<<>>, n), 0, Repeat(0, n)))

\* variant: the weight of every neighbor entry is entered under every key
RECURSIVE weight_to_any(_, _, _, _)
weight_to_any(entries, k, community, c) ==
    IF k > Len(entries) THEN 0
    ELSE entries[k][2] + weight_to_any(entries, k + 1, community, c)

\* comm_weights[c] of a node: the weight of its neighbor entries in community c
RECURSIVE weight_to(_, _, _, _)
weight_to(entries, k, community, c) ==
    IF k > Len(entries) THEN 0
    ELSE (IF At(community, entries[k][1]) = c THEN entries[k][2] ELSE 0)
           + weight_to(entries, k + 1, community, c)

\* One node of the sweep of louvain_local_moving, as the set of the states it
\* can leave.  st = [community, sigma_tot, improved, total_gain]; sigma_in is
\* written by the code and never read.  comm_weights is a HashMap: of several
\* communities of the same largest gain the loop keeps the one its iteration
\* order yields first.
visit_node(adj, res, node, st) ==
    LET k_i == At(adj.degree, node) IN
    IF k_i <= EPSILON THEN {st}
    ELSE
    LET entries   == At(adj.neighbors, node)
        node_comm == At(st.community, node)
        k_i_in    == weight_to(entries, 1, st.community, node_comm)
        sigma1    == SetAt(st.sigma_tot, node_comm, At(st.sigma_tot, node_comm) - k_i)
        \* the keys of comm_weights
        comms     == {At(st.community, entries[k][1]) : k \in 1 .. Len(entries)}
        net_gain(c) == (weight_to(entries, 1, st.community, c) - k_i_in) * adj.m2 * res[2]
                         - res[1] * k_i * (At(sigma1, c) - At(sigma1, node_comm))
        top       == IF comms = {} THEN 0 ELSE SetMax({net_gain(c) : c \in comms})
        best      == IF top > 0 THEN {c \in comms : net_gain(c) = top} ELSE {node_comm}
    IN {[community  |-> SetAt(st.community, node, best_comm),
         sigma_tot  |-> SetAt(sigma1, best_comm, At(sigma1, best_comm) + k_i),
         improved   |-> st.improved \/ best_comm # node_comm,
         total_gain |-> st.total_gain + (IF best_comm # node_comm THEN top ELSE 0)] :
          best_comm \in best}

\* variant: the passes go on while a node moves
keeps_moving_unbounded(improved, iteration, max_iter) == improved

\* while improved && iteration < max_iterations
keeps_moving(improved, iteration, max_iter) == improved /\ iteration < max_iter

\* the community vectors phase 1 can return, each with the number of passes
\* made for it
louvain_local_moving(adj, n, res, max_iter) ==
    LET RECURSIVE sweep(_, _)
        sweep(node, sts) ==
            IF node >= n THEN sts
            ELSE sweep(node + 1, UNION {visit_node(adj, res, node, st) : st \in sts})
        RECURSIVE local_moving_loop(_, _)
        local_moving_loop(iteration, st) ==
            IF ~ keeps_moving(st.improved, iteration, max_iter)
            THEN {[community |-> st.community, iterations |-> iteration]}
            ELSE UNION {IF s.total_gain * MinGainInverse < adj.m2 * adj.m2 * res[2]
                        THEN {[community |-> s.community, iterations |-> iteration + 1]}
                        ELSE local_moving_loop(iteration + 1, s) :
                          s \in sweep(0, {[st EXCEPT !.improved = FALSE, !.total_gain = 0]})}
    IN IF adj.m2 <= EPSILON THEN {[community |-> Iota(n), iterations |-> 0]}
       ELSE local_moving_loop(0, [community |-> Iota(n), sigma_tot |-> adj.degree,
                                  improved |-> TRUE, total_gain |-> 0])

\* ids in the order of first appearance; acc = [compacted, id_map, next_id]
compact_communities(community) ==
    LET RECURSIVE compact_loop(_, _)
        compact_loop(k, acc) ==
            IF k > Len(community) THEN acc
            ELSE LET comm == community[k] IN
                 IF comm \in DOMAIN acc.id_map
                 THEN compact_loop(k + 1, [acc EXCEPT !.compacted = Append(@, acc.id_map[comm])])
                 ELSE compact_loop(k + 1,
                         [compacted |-> Append(acc.compacted, acc.next_id),
                          id_map |-> MapPut(acc.id_map, comm, acc.next_id),
                          next_id |-> acc.next_id + 1])
    IN compact_loop(1, [compacted |-> <<>>, id_map |-> EmptyMap, next_id |-> 0])

map_levels_to_original(levels, n) ==
    LET RECURSIVE through_levels(_, _)
        through_levels(k, comm) ==
            IF k > Len(levels) THEN comm ELSE through_levels(k + 1, At(levels[k], comm))
        RECURSIVE traced(_)
        traced(node) ==
            IF node >= n THEN <<>>
            ELSE <<through_levels(1, node)>> \o traced(node + 1)
    IN compact_communities(traced(0)).compacted

\* variant: inter_edges is keyed by the target node, not by its community
coarsen_graph_by_target_node(adj, community, num_communities) ==
    LET \* inter_edges[(src_comm, tgt_comm)]
        RECURSIVE inter_weight(_, _, _)
        inter_weight(src, src_comm, tgt_comm) ==
            IF src >= Len(community) THEN 0
            ELSE (IF At(community, src) = src_comm
                  THEN weight_to(At(adj.neighbors, src), 1, Iota(Len(community)), tgt_comm)
                  ELSE 0)
                   + inter_weight(src + 1, src_comm, tgt_comm)
        \* the neighbors of a super-node; inter_edges is a HashMap, the entries
        \* are taken here by ascending community
        RECURSIVE coarse_row(_, _)
        coarse_row(src_comm, tgt_comm) ==
            IF tgt_comm >= num_communities THEN <<>>
            ELSE LET w == inter_weight(0, src_comm, tgt_comm) IN
                 (IF w > 0 /\ tgt_comm # src_comm THEN <<<<tgt_comm, w>>>> ELSE <<>>)
                   \o coarse_row(src_comm, tgt_comm + 1)
        RECURSIVE row_weight(_, _)
        row_weight(src_comm, tgt_comm) ==
            IF tgt_comm >= num_communities THEN 0
            ELSE inter_weight(0, src_comm, tgt_comm) + row_weight(src_comm, tgt_comm + 1)
        RECURSIVE coarsen_loop(_, _)
        coarsen_loop(src_comm, acc) ==
            IF src_comm >= num_communities THEN acc
            ELSE LET d == row_weight(src_comm, 0) IN
                 coarsen_loop(src_comm + 1,
                    AdjacencyList(Append(acc.neighbors, coarse_row(src_comm, 0)),
                                  acc.m2 + d,
                                  Append(acc.degree, d)))
    IN coarsen_loop(0, AdjacencyList(<<>>, 0, <<>>))

coarsen_graph(adj, community, num_communities) ==
    LET \* inter_edges[(src_comm, tgt_comm)]
        RECURSIVE inter_weight(_, _, _)
        inter_weight(src, src_comm, tgt_comm) ==
            IF src >= Len(community) THEN 0
            ELSE (IF At(community, src) = src_comm
                  THEN weight_to(At(adj.neighbors, src), 1, community, tgt_comm) ELSE 0)
                   + inter_weight(src + 1, src_comm, tgt_comm)
        \* the neighbors of a super-node; inter_edges is a HashMap, the entries
        \* are taken here by ascending community
        RECURSIVE coarse_row(_, _)
        coarse_row(src_comm, tgt_comm) ==
            IF tgt_comm >= num_communities THEN <<>>
            ELSE LET w == inter_weight(0, src_comm, tgt_comm) IN
                 (IF w > 0 /\ tgt_comm # src_comm THEN <<<<tgt_comm, w>>>> ELSE <<>>)
                   \o coarse_row(src_comm, tgt_comm + 1)
        RECURSIVE row_weight(_, _)
        row_weight(src_comm, tgt_comm) ==
            IF tgt_comm >= num_communities THEN 0
            ELSE inter_weight(0, src_comm, tgt_comm) + row_weight(src_comm, tgt_comm + 1)
        RECURSIVE coarsen_loop(_, _)
        coarsen_loop(src_comm, acc) ==
            IF src_comm >= num_communities THEN acc
            ELSE LET d == row_weight(src_comm, 0) IN
                 coarsen_loop(src_comm + 1,
                    AdjacencyList(Append(acc.neighbors, coarse_row(src_comm, 0)),
                                  acc.m2 + d,
                                  Append(acc.degree, d)))
    IN coarsen_loop(0, AdjacencyList(<<>>, 0, <<>>))

\* q, as its numerator over adj.m2 * adj.m2 * res[2]:
\* l_c / total_weight = internal_weight[c] / m2 and (d_c / m2)^2 = d_c^2 / m2^2
compute_modularity(assignments, community_count, adj, res) ==
    LET RECURSIVE internal_weight(_, _)
        internal_weight(c, node) ==
            IF node >= Len(assignments) THEN 0
            ELSE (IF At(assignments, node) = c
                  THEN weight_to(At(adj.neighbors, node), 1, assignments, c) ELSE 0)
                   + internal_weight(c, node + 1)
        RECURSIVE community_degree(_, _)
        community_degree(c, node) ==
            IF node >= Len(assignments) THEN 0
            ELSE (IF At(assignments, node) = c THEN At(adj.degree, node) ELSE 0)
                   + community_degree(c, node + 1)
        RECURSIVE modularity_sum(_)
        modularity_sum(c) ==
            IF c >= community_count THEN 0
            ELSE internal_weight(c, 0) * adj.m2 * res[2]
                   - res[1] * community_degree(c, 0) * community_degree(c, 0)
                   + modularity_sum(c + 1)
    IN IF adj.m2 <= EPSILON THEN 0 ELSE modularity_sum(0)

\* modularity is a numerator over scale
\* evaluated, level_sizes and passes record the run: the candidates scored,
\* and the number of nodes and of local-moving passes of each level
CommunityResult(assignments, community_count, modularity, scale) ==
    [assignments |-> assignments, community_count |-> community_count,
     modularity |-> modularity, scale |-> scale,
     evaluated |-> {}, level_sizes |-> <<>>, passes |-> <<>>]

\* one community per node
count_of_nodes(candidate) == Len(candidate)

\* *candidate.iter().max().unwrap_or(&0) + 1
count_of(candidate) == SeqMax(candidate, 1, 0) + 1

\* variant: the degenerate case reports the placeholder of the main path
no_edges_result_placeholder(n) == CommunityResult(Iota(n), n, 0 - 1, 1)

\* the result for a graph without edge weight: every node its own community
no_edges_result(n) == CommunityResult(Iota(n), n, 0, 1)

\* detect_communities: the results the call can give
detect_communities(csr, n, res, max_iter) ==
    LET orig_adj == from_csr(csr, n)
        \* the loop over the levels, as the set of the results it can end with
        RECURSIVE levels_loop(_, _, _, _, _)
        levels_loop(level, levels, current_adj, current_node_count, best) ==
            IF level >= max_levels THEN {best}
            ELSE UNION {
              LET cc == compact_communities(moved.community)
                  ran == Append(best.level_sizes, current_node_count)
                  passes == Append(best.passes, moved.iterations)
              IN
              IF cc.next_id >= current_node_count
              THEN {[best EXCEPT !.level_sizes = ran, !.passes = passes]}
              ELSE LET levels1   == Append(levels, cc.compacted)
                       candidate == map_levels_to_original(levels1, n)
                       candidate_count == count_of(candidate)
                       candidate_mod   == compute_modularity(candidate, candidate_count,
                                                             orig_adj, res)
                       kept  == IF candidate_mod > best.modularity /\ candidate_count > 1
                                THEN CommunityResult(candidate, candidate_count,
                                                     candidate_mod, best.scale)
                                ELSE best
                       best1 == [kept EXCEPT !.evaluated = best.evaluated \cup {candidate},
                                             !.level_sizes = ran, !.passes = passes]
                   IN IF candidate_mod * 100 < best1.modularity * 100 - best.scale
                      THEN {best1}
                      ELSE levels_loop(level + 1, levels1,
                                       coarsen_graph(current_adj, cc.compacted, cc.next_id),
                                       cc.next_id, best1) :
                moved \in louvain_local_moving(current_adj, current_node_count, res, max_iter)}
    IN IF n = 0 THEN {CommunityResult(<<>>, 0, 0, 1)}
       ELSE IF orig_adj.m2 <= EPSILON THEN {no_edges_result(n)}
       ELSE LET scale == orig_adj.m2 * orig_adj.m2 * res[2] IN
            levels_loop(0, <<>>, orig_adj, n, CommunityResult(Iota(n), n, 0 - scale, scale))

\* ---- the engine as a state machine --------------------------------------
\* The first thirteen variables are the fields of GraphEngine.  The others
\* record what the callers saw: ret is the last call among add_node /
\* remove_node / add_edge / remove_edge / clear (val: the value returned,
\* booleans as 1 / 0, None as Vacant; edges_before: edge_count() before the
\* call; for a remove_node, touched: the ids of the edges that were incident
\* to the node, slot: the slot it had), written[id] the position last
\* passed for a live id, and
\* node_ids_returned / edge_ids_returned the ids handed out since the last
\* clear, in order.
VARIABLES graph, node_id_to_index, edge_id_to_index, edge_index_to_id,
          next_node_id, next_edge_id, pos_x, pos_y, vel_x, vel_y, states,
          spatial, spatial_dirty,
          ret, written, node_ids_returned, edge_ids_returned,
          edge_array, call

engine == <<graph, node_id_to_index, edge_id_to_index, edge_index_to_id,
            next_node_id, next_edge_id, pos_x, pos_y, vel_x, vel_y, states,
            spatial, spatial_dirty>>

observed == <<ret, written, node_ids_returned, edge_ids_returned>>

\* edge_array is the flat [parent0, child0, parent1, child1, ...] array a
\* caller of the layout functions is filling, call the last layout call made
\* on it: its arguments and what it returned
layouts == <<edge_array, call>>

vars == <<engine, observed, layouts>>

Self ==
    [graph |-> graph,
     node_id_to_index |-> node_id_to_index,
     edge_id_to_index |-> edge_id_to_index,
     edge_index_to_id |-> edge_index_to_id,
     next_node_id |-> next_node_id,
     next_edge_id |-> next_edge_id,
     pos_x |-> pos_x, pos_y |-> pos_y, vel_x |-> vel_x, vel_y |-> vel_y,
     states |-> states,
     spatial |-> spatial,
     spatial_dirty |-> spatial_dirty]

Becomes(e) ==
    /\ graph' = e.graph
    /\ node_id_to_index' = e.node_id_to_index
    /\ edge_id_to_index' = e.edge_id_to_index
    /\ edge_index_to_id' = e.edge_index_to_id
    /\ next_node_id' = e.next_node_id
    /\ next_edge_id' = e.next_edge_id
    /\ pos_x' = e.pos_x
    /\ pos_y' = e.pos_y
    /\ vel_x' = e.vel_x
    /\ vel_y' = e.vel_y
    /\ states' = e.states
    /\ spatial' = e.spatial
    /\ spatial_dirty' = e.spatial_dirty

RetTrue == 1
RetFalse == 0
BoolRet(b) == IF b THEN RetTrue ELSE RetFalse

Live == DOMAIN node_id_to_index

LiveEdges == DOMAIN edge_id_to_index

Returned(op, val) ==
    [op |-> op, val |-> val, edges_before |-> edge_count(Self),
     touched |-> {}, loops |-> {}, slot |-> Vacant]

\* the ids of the live edges whose source or target is the node id
TouchingEdgeIds(e, id) ==
    IF id \notin DOMAIN e.node_id_to_index THEN {}
    ELSE {eid \in DOMAIN e.edge_id_to_index :
            LET ed == At(e.graph.edges, e.edge_id_to_index[eid]) IN
            \/ ed.src = e.node_id_to_index[id]
            \/ ed.tgt = e.node_id_to_index[id]}

\* those of them that lead from the node to itself
SelfLoopEdgeIds(e, id) ==
    {eid \in TouchingEdgeIds(e, id) :
        LET ed == At(e.graph.edges, e.edge_id_to_index[eid]) IN ed.src = ed.tgt}

NoCall == [op |-> "none"]

Init ==
    /\ graph = EngineNew.graph
    /\ node_id_to_index = EngineNew.node_id_to_index
    /\ edge_id_to_index = EngineNew.edge_id_to_index
    /\ edge_index_to_id = EngineNew.edge_index_to_id
    /\ next_node_id = EngineNew.next_node_id
    /\ next_edge_id = EngineNew.next_edge_id
    /\ pos_x = EngineNew.pos_x
    /\ pos_y = EngineNew.pos_y
    /\ vel_x = EngineNew.vel_x
    /\ vel_y = EngineNew.vel_y
    /\ states = EngineNew.states
    /\ spatial = EngineNew.spatial
    /\ spatial_dirty = EngineNew.spatial_dirty
    /\ ret = Returned("new", 0)
    /\ written = EmptyMap
    /\ node_ids_returned = <<>>
    /\ edge_ids_returned = <<>>
    /\ edge_array = <<>>
    /\ call = NoCall

AddNode(x, y) ==
    /\ LET r == add_node(Self, x, y) IN
       /\ Becomes(r.e)
       /\ ret' = Returned("add_node", r.ret)
       /\ written' = MapPut(written, r.ret, <<x, y>>)
       /\ node_ids_returned' = Append(node_ids_returned, r.ret)
    /\ UNCHANGED edge_ids_returned
    /\ UNCHANGED layouts

RemoveNode(id) ==
    /\ LET r == remove_node(Self, id) IN
       /\ Becomes(r.e)
       /\ ret' = [Returned("remove_node", BoolRet(r.ret)) EXCEPT
                   !.touched = TouchingEdgeIds(Self, id),
                   !.loops = SelfLoopEdgeIds(Self, id),
                   !.slot = IF id \in Live THEN node_id_to_index[id] ELSE Vacant]
    /\ written' = MapDel(written, id)
    /\ UNCHANGED <<node_ids_returned, edge_ids_returned>>
    /\ UNCHANGED layouts

SetNodePosition(id, x, y) ==
    /\ Becomes(set_node_position(Self, id, x, y))
    /\ written' = IF id \in Live THEN MapPut(written, id, <<x, y>>) ELSE written
    /\ UNCHANGED <<ret, node_ids_returned, edge_ids_returned>>
    /\ UNCHANGED layouts

PinNode(id) ==
    /\ Becomes(pin_node(Self, id))
    /\ UNCHANGED observed
    /\ UNCHANGED layouts

UnpinNode(id) ==
    /\ Becomes(unpin_node(Self, id))
    /\ UNCHANGED observed
    /\ UNCHANGED layouts

AddEdge(source, target) ==
    /\ LET r == add_edge(Self, source, target) IN
       /\ Becomes(r.e)
       /\ ret' = Returned("add_edge", r.ret)
       /\ edge_ids_returned' = IF r.ret # Vacant THEN Append(edge_ids_returned, r.ret)
                                                 ELSE edge_ids_returned
    /\ UNCHANGED <<written, node_ids_returned>>
    /\ UNCHANGED layouts

RemoveEdge(id) ==
    /\ LET r == remove_edge(Self, id) IN
       /\ Becomes(r.e)
       /\ ret' = Returned("remove_edge", BoolRet(r.ret))
    /\ UNCHANGED <<written, node_ids_returned, edge_ids_returned>>
    /\ UNCHANGED layouts

RebuildSpatialIndex ==
    /\ Becomes(rebuild_spatial_index(Self))
    /\ UNCHANGED observed
    /\ UNCHANGED layouts

FindNearestNode(x, y) ==
    /\ \E r \in find_nearest_node(Self, x, y) : ret' = Returned("find_nearest_node", r)
    /\ UNCHANGED <<engine, written, node_ids_returned, edge_ids_returned>>
    /\ UNCHANGED layouts

Clear ==
    /\ Becomes(clear(Self))
    /\ ret' = Returned("clear", 0)
    /\ written' = EmptyMap
    /\ node_ids_returned' = <<>>
    /\ edge_ids_returned' = <<>>
    /\ UNCHANGED layouts

Next ==
    \/ \E c \in Origin : next_node_id < MaxNodes /\ AddNode(c[1], c[2])
    \/ \E id \in NodeIds(MaxNodes) : RemoveNode(id)
    \/ \E id \in NodeIds(MaxNodes), c \in Origin : SetNodePosition(id, c[1], c[2])
    \/ \E id \in NodeIds(MaxNodes) : PinNode(id)
    \/ \E id \in NodeIds(MaxNodes) : UnpinNode(id)
    \/ \E s \in NodeIds(MaxNodes), t \in NodeIds(MaxNodes) :
          next_edge_id < MaxEdges /\ AddEdge(s, t)
    \/ \E id \in EdgeIds(MaxEdges) : RemoveEdge(id)
    \/ RebuildSpatialIndex
    \/ Clear

Spec == Init /\ [][Next]_vars

NextTopo ==
    \/ \E c \in Origin : next_node_id < TopoMaxNodes /\ AddNode(c[1], c[2])
    \/ \E id \in NodeIds(TopoMaxNodes) : RemoveNode(id)
    \/ \E s \in NodeIds(TopoMaxNodes), t \in NodeIds(TopoMaxNodes) :
          next_edge_id < TopoMaxEdges /\ AddEdge(s, t)
    \/ \E id \in EdgeIds(TopoMaxEdges) : RemoveEdge(id)
    \/ Clear

SpecTopo == Init /\ [][NextTopo]_vars

NextPos ==
    \/ \E c \in Coords : next_node_id < PosMaxNodes /\ AddNode(c[1], c[2])
    \/ \E id \in NodeIds(PosMaxNodes) : RemoveNode(id)
    \/ \E id \in NodeIds(PosMaxNodes), c \in Coords : SetNodePosition(id, c[1], c[2])
    \/ \E s \in NodeIds(PosMaxNodes), t \in NodeIds(PosMaxNodes) :
          next_edge_id < PosMaxEdges /\ AddEdge(s, t)
    \/ \E id \in EdgeIds(PosMaxEdges) : RemoveEdge(id)
    \/ Clear

SpecPos == Init /\ [][NextPos]_vars

NextSpatial ==
    \/ \E c \in SpatCoords : next_node_id < SpatMaxNodes /\ AddNode(c[1], c[2])
    \/ \E id \in NodeIds(SpatMaxNodes) : RemoveNode(id)
    \/ \E id \in NodeIds(SpatMaxNodes), c \in SpatCoords : SetNodePosition(id, c[1], c[2])
    \/ RebuildSpatialIndex
    \/ \E c \in SpatCoords : FindNearestNode(c[1], c[2])
    \/ Clear

SpecSpatial == Init /\ [][NextSpatial]_vars

\* ---- the layout functions, called on edge arrays -------------------------
TreeMaxLen == 6

\* node_count of the calls; the ids an array can hold go one beyond it
TreeNodeCount == 3
Modes == {"Linear", "Radial"}

\* the caller lengthens the array it will pass
Push(items) ==
    /\ edge_array' = edge_array \o items
    /\ call' = NoCall
    /\ UNCHANGED <<engine, observed>>

\* TidyTreeLayout::new(config).compute(node_count, edges, root_id)
ComputeTreeLayout(node_cnt, root_id, mode) ==
    /\ \E r \in compute(TidyTreeConfig(mode), node_cnt, edge_array, root_id) :
          call' = [op |-> "compute", node_count |-> node_cnt, edges |-> edge_array,
                   root_id |-> root_id, mode |-> mode, node_categories |-> <<>>,
                   result |-> r]
    /\ UNCHANGED <<engine, observed, edge_array>>

ComputeCodebaseLayout(node_cnt, root_id, node_categories) ==
    /\ \E r \in compute_codebase_layout(edge_array, node_categories, node_cnt,
                                        root_id, CodebaseLayoutConfig) :
          call' = [op |-> "compute_codebase_layout", node_count |-> node_cnt,
                   edges |-> edge_array,
                   root_id |-> root_id, mode |-> "Linear",
                   node_categories |-> node_categories, result |-> r]
    /\ UNCHANGED <<engine, observed, edge_array>>

ComputeBubbleData(root_id) ==
    /\ \E r \in compute_bubble_data(edge_array, TreeNodeCount, root_id, BubbleConfig) :
          call' = [op |-> "compute_bubble_data", node_count |-> TreeNodeCount,
                   edges |-> edge_array,
                   root_id |-> root_id, mode |-> "Linear",
                   node_categories |-> <<>>, result |-> r]
    /\ UNCHANGED <<engine, observed, edge_array>>

\* the ids an array holds go one beyond node_count; the roots are: none
\* given, one in bounds, one out of bounds; the categories are one short of
\* node_count, so that the last slot falls back on Other
NextTree ==
    \/ \E v \in 0 .. TreeNodeCount : Len(edge_array) < TreeMaxLen /\ Push(<<v>>)
    \/ \E root_id \in {Vacant, 1, TreeNodeCount}, mode \in Modes :
          ComputeTreeLayout(TreeNodeCount, root_id, mode)
    \/ \E root_id \in {Vacant, 1, TreeNodeCount} :
          ComputeCodebaseLayout(TreeNodeCount, root_id, <<0, 1>>)
    \/ \E root_id \in {Vacant, 1, TreeNodeCount} : ComputeBubbleData(root_id)

SpecTree == Init /\ [][NextTree]_vars

\* ---- the tidy tree on growing hierarchies ---------------------------------
TidyMaxNodes == 5

\* the ids 0 .. NodesOf - 1 are in use
NodesOf(flat) ==
    LET RECURSIVE MaxId(_)
        MaxId(k) == IF k > Len(flat) THEN 0 ELSE IMax(flat[k], MaxId(k + 1))
    IN MaxId(1) + 1

\* every pair of the array gave a new node to a node that was there
IsTreeArray(flat) == Len(flat) = 2 * (NodesOf(flat) - 1)

\* The caller hangs a new node under a node that is there, or (once, after a
\* tree) adds a pair between two nodes that are there: a second parent, a
\* duplicate, a self-loop or a way back up.
NextTidy ==
    \/ \E p \in 0 .. TidyMaxNodes - 1 :
          /\ p < NodesOf(edge_array) /\ NodesOf(edge_array) < TidyMaxNodes
          /\ Push(<<p, NodesOf(edge_array)>>)
    \/ \E p \in 0 .. TidyMaxNodes - 1, c \in 0 .. TidyMaxNodes - 1 :
          /\ p < NodesOf(edge_array) /\ c < NodesOf(edge_array)
          /\ IsTreeArray(edge_array)
          /\ Push(<<p, c>>)
    \/ \E root_id \in {Vacant, 1}, mode \in Modes :
          ComputeTreeLayout(NodesOf(edge_array), root_id, mode)

SpecTidy == Init /\ [][NextTidy]_vars

\* ---- compute on trees listed in depth-first order ---------------------------
PreorderMaxNodes == 9

\* The caller lists the edges of a tree in the order of a depth-first walk:
\* the new node hangs under the node added last or under one of its
\* ancestors (the parent of node k is the first id of pair k); then it makes
\* its call.
NextPreorder ==
    \/ \E p \in 0 .. PreorderMaxNodes - 1 :
          LET RECURSIVE on_last_path(_)
              on_last_path(k) ==
                  IF k = p THEN TRUE
                  ELSE IF k = 0 THEN FALSE
                  ELSE on_last_path(edge_array[2 * k - 1])
          IN /\ call = NoCall
             /\ NodesOf(edge_array) < PreorderMaxNodes
             /\ p < NodesOf(edge_array)
             /\ on_last_path(NodesOf(edge_array) - 1)
             /\ Push(<<p, NodesOf(edge_array)>>)
    \/ /\ call = NoCall
       /\ ComputeTreeLayout(NodesOf(edge_array), Vacant, "Linear")

SpecPreorder == Init /\ [][NextPreorder]_vars

\* ---- compute_codebase_layout on containment trees --------------------------
CodebaseMaxNodes == 6

\* The caller hangs a new node under a node that is there, and then makes
\* its call; node 0 is the repository, every other node a repository of its
\* own, a file or a symbol.
NextCodebase ==
    \/ \E p \in 0 .. CodebaseMaxNodes - 1 :
          /\ call = NoCall
          /\ p < NodesOf(edge_array) /\ NodesOf(edge_array) < CodebaseMaxNodes
          /\ Push(<<p, NodesOf(edge_array)>>)
    \/ \E below \in [1 .. NodesOf(edge_array) - 1 -> {0, 2, 3}] :
          /\ call = NoCall
          /\ ComputeCodebaseLayout(NodesOf(edge_array), Vacant, <<0>> \o below)

SpecCodebase == Init /\ [][NextCodebase]_vars

\* ---- community detection on growing graphs --------------------------------
CommMaxEdges == 3

\* node_count of the calls; a target can be one beyond it
CommNodeCount == 4

\* the CSR array [offsets (n + 1), targets] of the edges of a flat array that
\* lists them by source
csr_of(flat, n) ==
    LET \* the number of pairs of the flat array whose source is below src
        RECURSIVE rows_before(_, _)
        rows_before(k, src) ==
            IF 2 * k > Len(flat) THEN 0
            ELSE (IF flat[2 * k - 1] < src THEN 1 ELSE 0) + rows_before(k + 1, src)
        RECURSIVE csr_offsets(_)
        csr_offsets(src) ==
            IF src > n THEN <<>> ELSE <<rows_before(1, src)>> \o csr_offsets(src + 1)
        RECURSIVE csr_targets(_)
        csr_targets(k) ==
            IF 2 * k > Len(flat) THEN <<>> ELSE <<flat[2 * k]>> \o csr_targets(k + 1)
    IN csr_offsets(0) \o csr_targets(1)

\* the edge source -> target comes after the edges listed so far
ComesNext(flat, source, target) ==
    IF flat = <<>> THEN TRUE
    ELSE IF flat[Len(flat) - 1] = source THEN flat[Len(flat)] <= target
    ELSE flat[Len(flat) - 1] < source

DetectCommunities(n, res, max_iter) ==
    /\ \E r \in detect_communities(csr_of(edge_array, n), n, res, max_iter) :
          call' = [op |-> "detect_communities", node_count |-> n,
                   edges |-> edge_array, csr |-> csr_of(edge_array, n),
                   resolution |-> res, max_iterations |-> max_iter, result |-> r]
    /\ UNCHANGED <<engine, observed, edge_array>>

\* the resolutions are 1.0 and 2.0, max_iterations is 1 or the default; the
\* graph of no node has no edge
NextCommunity ==
    \/ \E s \in 0 .. CommNodeCount - 1, t \in 0 .. CommNodeCount :
          /\ Len(edge_array) < 2 * CommMaxEdges
          /\ ComesNext(edge_array, s, t)
          /\ Push(<<s, t>>)
    \/ \E n \in {0, CommNodeCount}, res \in {<<1, 1>>, <<2, 1>>}, max_iter \in {1, max_iterations} :
          (n = 0 => edge_array = <<>>) /\ DetectCommunities(n, res, max_iter)

SpecCommunity == Init /\ [][NextCommunity]_vars

\* ---- detect_communities on the graphs of test_two_disconnected_components
\* the directed edges of the two cliques {0,1,2} and {3,4,5}
CliqueEdges ==
    ({<<s, t>> : s \in 0 .. 2, t \in 0 .. 2} \cup {<<s, t>> : s \in 3 .. 5, t \in 3 .. 5})
      \ {<<s, s>> : s \in 0 .. 5}

\* the edge lists are those of the test and the ones it has with edges left
\* out; an edge is listed once, by source and target as build_csr stores it
NextCliques ==
    \/ \E p \in CliqueEdges :
          /\ edge_array # <<>> =>
                \/ edge_array[Len(edge_array) - 1] < p[1]
                \/ edge_array[Len(edge_array) - 1] = p[1] /\ edge_array[Len(edge_array)] < p[2]
          /\ Push(p)
    \/ DetectCommunities(6, <<1, 1>>, max_iterations)

SpecCliques == Init /\ [][NextCliques]_vars

\* ---- reading an export ---------------------------------------------------
\* csr = offsets (nb + 1 of them) followed by the targets / sources
CsrOffset(csr, j) == At(csr, j)
CsrRow(csr, nb, s) ==
    SubSeq(csr, nb + 1 + CsrOffset(csr, s) + 1, nb + 1 + CsrOffset(csr, s + 1))
Occurrences(row, x) == Cardinality({j \in DOMAIN row : row[j] = x})
\* the live edge slots from slot a to slot b
EdgesBetween(g, a, b) ==
    {k \in sg_edge_indices(g) : At(g.edges, k).src = a /\ At(g.edges, k).tgt = b}
Slots(e) == 0 .. node_bound(e) - 1

\* no row of the slot and no entry naming the slot
NoEntryFor(csr, nb, slot) ==
    /\ slot < nb => CsrRow(csr, nb, slot) = <<>>
    /\ \A j \in nb + 2 .. Len(csr) : csr[j] # slot

\* what a caller sees of the current state
NodeCount == node_count(Self)
NodeBound == node_bound(Self)
EdgeCount == edge_count(Self)
EdgesCsr == get_edges_csr(Self)
InverseEdgesCsr == get_inverse_edges_csr(Self)
NodeDegrees == get_node_degrees(Self)
RemoveEdgeFails(eid) == ~ remove_edge(Self, eid).ret
SlotAbsentFromExports(slot) ==
    /\ NoEntryFor(EdgesCsr, NodeBound, slot)
    /\ NoEntryFor(InverseEdgesCsr, NodeBound, slot)

\* ---- C1 -----------------------------------------------------------------
\* C1: for every live node id, get_node_position(id) is the (x, y) last
\* written for that id by add_node or set_node_position, also for a node
\* added after an earlier node was removed.
C1_PositionIsLastWritten ==
    \A id \in Live : get_node_position(Self, id) = written[id]

\* ---- C2 -----------------------------------------------------------------
\* C2: remove_node of a live id, whatever its slot, returns true, lowers
\* node_count() by one and leaves node_bound() unchanged; node_bound()
\* decreases only through clear().
C2_RemoveKeepsBound ==
    [][/\ \A id \in Live :
            RemoveNode(id) =>
               /\ ret'.val = RetTrue
               /\ NodeCount' = NodeCount - 1
               /\ NodeBound' = NodeBound
       /\ (NodeBound' < NodeBound => Clear)]_vars

\* ---- C3 -----------------------------------------------------------------
EndpointsLive ==
    \A k \in sg_edge_indices(graph) :
        /\ At(graph.edges, k).src \in sg_node_indices(graph)
        /\ At(graph.edges, k).tgt \in sg_node_indices(graph)
        /\ At(graph.nodes, At(graph.edges, k).src).weight \in Live
        /\ At(graph.nodes, At(graph.edges, k).tgt).weight \in Live

\* C3: both endpoints of every live edge are live nodes; remove_node(id)
\* removes exactly the edges whose source or target is id (a self-loop
\* once): edge_count() drops by their number, remove_edge on each of their
\* ids then returns false, and neither CSR export has an entry for an edge
\* of the removed node (nor of any other vacant slot).
C3_RemoveNodeRemovesIncidentEdges ==
    /\ EndpointsLive
    /\ \A slot \in 0 .. Len(graph.nodes) - 1 :
          slot \notin sg_node_indices(graph) => SlotAbsentFromExports(slot)
    /\ (ret.op = "remove_node" /\ ret.val = RetTrue) =>
          /\ EdgeCount = ret.edges_before - Cardinality(ret.touched)
          /\ \A eid \in ret.touched : RemoveEdgeFails(eid)
          /\ Cardinality(LiveEdges) = EdgeCount
          /\ SlotAbsentFromExports(ret.slot)

\* a remove_node has just taken out a node with a self-loop and another
\* edge, and a third edge is left
C3_Witness ==
    /\ ret.op = "remove_node"
    /\ ret.val = RetTrue
    /\ ret.loops # {}
    /\ ret.touched \ ret.loops # {}
    /\ edge_count(Self) >= 1

C5_ClearIsFresh ==
    /\ ret.op = "clear" =>
          /\ Self = EngineNew
          /\ NodeCount = 0 /\ EdgeCount = 0 /\ NodeBound = 0
          /\ pos_x = <<>> /\ pos_y = <<>> /\ vel_x = <<>> /\ vel_y = <<>>
    /\ node_ids_returned # <<>> => node_ids_returned[1] = 0
    /\ edge_ids_returned # <<>> => edge_ids_returned[1] = 0

\* a clear() of an engine that held an edge (hence nodes)
C5_Witness ==
    /\ ret.op = "clear"
    /\ ret.edges_before >= 1

\* ---- C6 -----------------------------------------------------------------
\* C6: since the last clear() the k-th add_node returned id k-1 and the k-th
\* successful add_edge returned id k-1, so no id was returned twice, also
\* after the node or edge that held it was removed.
C6_IdsAreSequential ==
    /\ \A k \in DOMAIN node_ids_returned : node_ids_returned[k] = k - 1
    /\ \A k \in DOMAIN edge_ids_returned : edge_ids_returned[k] = k - 1

\* an id was handed out after a removal: a node and an edge sit in reused slots
C6_Witness ==
    /\ \E id \in Live : node_id_to_index[id] # id
    /\ \E eid \in LiveEdges : edge_id_to_index[eid] # eid

\* ---- C7 -----------------------------------------------------------------
\* C7: called with an id that is not live, remove_node, remove_edge and
\* add_edge (either endpoint) return false / None, set_node_position,
\* pin_node and unpin_node do nothing, and none of them changes any field of
\* the engine (a failed add_edge takes no edge id); get_node_position,
\* is_node_pinned and get_neighbors answer None / false / empty.
C7_DeadIdIsNoOp ==
    [][/\ \A id \in NodeIds(MaxNodes) \ Live :
            /\ RemoveNode(id) => (UNCHANGED engine /\ ret'.val = RetFalse)
            /\ \A c \in Origin : SetNodePosition(id, c[1], c[2]) => UNCHANGED engine
            /\ PinNode(id) => UNCHANGED engine
            /\ UnpinNode(id) => UNCHANGED engine
            /\ \A o \in NodeIds(MaxNodes) :
                  (AddEdge(id, o) \/ AddEdge(o, id)) =>
                     (UNCHANGED engine /\ ret'.val = Vacant)
            /\ get_node_position(Self, id) = None
            /\ ~ is_node_pinned(Self, id)
            /\ get_neighbors(Self, id) = <<>>
       /\ \A eid \in EdgeIds(MaxEdges) \ LiveEdges :
            RemoveEdge(eid) => (UNCHANGED engine /\ ret'.val = RetFalse)]_vars

\* an add_edge has just failed while one id is live, one was removed and
\* one was never handed out
C7_Witness ==
    /\ ret.op = "add_edge"
    /\ ret.val = Vacant
    /\ NodeCount >= 1
    /\ Len(node_ids_returned) > NodeCount
    /\ next_edge_id = 0

RECURSIVE PairsOfRow(_, _)
PairsOfRow(src, row) ==
    IF row = <<>> THEN <<>> ELSE <<src, Head(row)>> \o PairsOfRow(src, Tail(row))

RECURSIVE PairsFromCsr(_, _, _)
PairsFromCsr(csr, nb, src) ==
    IF src >= nb THEN <<>>
    ELSE PairsOfRow(src, CsrRow(csr, nb, src)) \o PairsFromCsr(csr, nb, src + 1)

\* a fresh engine to which n nodes were added
RECURSIVE FreshEngineWith(_)
FreshEngineWith(n) ==
    IF n = 0 THEN EngineNew ELSE add_node(FreshEngineWith(n - 1), 0, 0).e

\* C9: the (source, target) pairs read off get_edges_csr(), loaded with
\* add_edges_from_pairs into a fresh engine of node_bound() nodes, are all
\* added, and that engine has the same edge multiset, the same
\* get_edges_csr() and the same get_node_degrees() as the original.
C9_CsrRoundTrip ==
    \A csr \in {EdgesCsr}, nb \in {NodeBound} :
       \A pairs \in {PairsFromCsr(csr, nb, 0)} :
          \A r \in {add_edges_from_pairs(FreshEngineWith(nb), pairs)} :
             /\ Len(pairs) = 2 * EdgeCount
             /\ r.ret = EdgeCount
             /\ edge_count(r.e) = EdgeCount
             /\ \A a \in 0 .. nb - 1, b \in 0 .. nb - 1 :
                   Cardinality(EdgesBetween(r.e.graph, a, b))
                      = Cardinality(EdgesBetween(graph, a, b))
             /\ get_edges_csr(r.e) = csr
             /\ get_node_degrees(r.e) = NodeDegrees

\* a removed slot below the bound, an edge in a reused edge slot, edges in
\* two different rows
C9_Witness ==
    /\ \E s \in 0 .. NodeBound - 1 : s \notin sg_node_indices(graph)
    /\ \E eid \in LiveEdges : edge_id_to_index[eid] # eid
    /\ \E a \in LiveEdges, b \in LiveEdges :
          At(graph.edges, edge_id_to_index[a]).src # At(graph.edges, edge_id_to_index[b]).src

\* ---- C10 ----------------------------------------------------------------
LiveXs == {get_node_position(Self, id)[1] : id \in Live}
LiveYs == {get_node_position(Self, id)[2] : id \in Live}

\* C10: get_bounds() is None exactly when no node is live; otherwise it is
\* (min_x, min_y, max_x, max_y) over the positions get_node_position
\* reports for the live nodes.
C10_BoundsOverLiveNodes ==
    \A b \in {get_bounds(Self)} :
       /\ b = None <=> Live = {}
       /\ Live # {} => b = <<SetMin(LiveXs), SetMin(LiveYs), SetMax(LiveXs), SetMax(LiveYs)>>

\* ---- C11 ----------------------------------------------------------------
\* C11: the positions_x, positions_y, velocities_x and velocities_y buffers
\* and positionsLen all have length node_bound().
C11_BuffersAreNodeBoundLong ==
    /\ Len(positions_x(Self)) = NodeBound
    /\ Len(positions_y(Self)) = NodeBound
    /\ Len(velocities_x(Self)) = NodeBound
    /\ Len(velocities_y(Self)) = NodeBound
    /\ positions_len(Self) = NodeBound

\* ---- C12 ----------------------------------------------------------------
\* the index holds exactly one entry per live node, with the position
\* get_node_position reports for it
IndexIsCurrent ==
    spatial = {<<id, get_node_position(Self, id)[1], get_node_position(Self, id)[2]>> :
                 id \in Live}

\* the live nodes at the least distance from (x, y), by their current positions
NearestLive(x, y) ==
    {id \in Live :
        \A o \in Live :
           distance_2(<<id, get_node_position(Self, id)[1], get_node_position(Self, id)[2]>>, x, y)
             <= distance_2(<<o, get_node_position(Self, o)[1], get_node_position(Self, o)[2]>>, x, y)}

\* the live nodes whose current position lies in the rectangle r
LiveInRect(r) ==
    {id \in Live : /\ r[1] <= get_node_position(Self, id)[1]
                   /\ get_node_position(Self, id)[1] <= r[3]
                   /\ r[2] <= get_node_position(Self, id)[2]
                   /\ get_node_position(Self, id)[2] <= r[4]}

\* C12: add_node, remove_node of a live node and set_node_position of a live
\* node set the spatial dirty flag; only rebuild_spatial_index and clear
\* reset it; while the flag is clear the index holds exactly one (id, x, y)
\* per live node with its current position, and find_nearest_node and
\* find_nodes_in_rect answer from the current positions.
C12_DirtyFlagGuardsIndex ==
    [][/\ (\E c \in SpatCoords : AddNode(c[1], c[2])) => spatial_dirty'
       /\ \A id \in Live :
            /\ RemoveNode(id) => spatial_dirty'
            /\ \A c \in SpatCoords : SetNodePosition(id, c[1], c[2]) => spatial_dirty'
       /\ (spatial_dirty /\ ~ spatial_dirty') => (RebuildSpatialIndex \/ Clear)
       /\ ~ spatial_dirty => IndexIsCurrent
       /\ ~ spatial_dirty' => IndexIsCurrent'
       /\ ~ spatial_dirty =>
            /\ \A c \in SpatCoords :
                  FindNearestNode(c[1], c[2]) =>
                     IF Live = {} THEN ret'.val = Vacant
                                  ELSE ret'.val \in NearestLive(c[1], c[2])
            /\ \A r \in Rects :
                  find_nodes_in_rect(Self, r[1], r[2], r[3], r[4]) = LiveInRect(r)]_vars

\* the index was rebuilt after a position was overwritten, two nodes are
\* live at different positions and a query has been answered
C12_Witness ==
    /\ ~ spatial_dirty
    /\ Cardinality(spatial) = 2
    /\ \E id \in Live : written[id] # <<2, 1>>
    /\ \E a \in Live, b \in Live : written[a] # written[b]
    /\ ret.op = "find_nearest_node"
    /\ ret.val # Vacant

\* ---- C13 ----------------------------------------------------------------
\* C13: find_nearest_node returns None only when no node is live, and an id
\* it returns is the id of a live node, also right after add_node,
\* remove_node or set_node_position with no rebuild_spatial_index between.
C13_NearestIsLive ==
    [][\A c \in SpatCoords :
          FindNearestNode(c[1], c[2]) =>
             /\ ret'.val = Vacant => Live = {}
             /\ ret'.val # Vacant => ret'.val \in Live]_vars

\* ---- C14 ----
\* the pairs of a flat edge array that name two different ids below n, in
\* the order they have in the array
RECURSIVE ValidPairs(_, _)
ValidPairs(flat, n) ==
    IF Len(flat) < 2 THEN <<>>
    ELSE LET rest == ValidPairs(SubSeq(flat, 3, Len(flat)), n) IN
         IF flat[1] < n /\ flat[2] < n /\ flat[1] # flat[2]
         THEN <<flat[1], flat[2]>> \o rest
         ELSE rest

\* what a caller receives from a call
Output(op, r) ==
    IF op = "compute" THEN <<r.positions_x, r.positions_y, r.node_count>>
    ELSE IF op = "compute_codebase_layout" THEN r.positions
    ELSE r.data

\* the outputs the call c can give on the edge array flat
PossibleOutputs(c, flat) ==
    IF c.op = "compute"
    THEN {Output(c.op, r) :
            r \in compute(TidyTreeConfig(c.mode), c.node_count, flat, c.root_id)}
    ELSE IF c.op = "compute_codebase_layout"
    THEN {Output(c.op, r) :
            r \in compute_codebase_layout(flat, c.node_categories, c.node_count,
                                          c.root_id, CodebaseLayoutConfig)}
    ELSE {Output(c.op, r) :
            r \in compute_bubble_data(flat, c.node_count, c.root_id, BubbleConfig)}

\* the result that reports no tree
NoTreeOutput(c) ==
    IF c.op = "compute"
    THEN <<Repeat(SENTINEL, c.node_count), Repeat(SENTINEL, c.node_count), 0>>
    ELSE IF c.op = "compute_codebase_layout" THEN Repeat(SENTINEL, 2 * c.node_count)
    ELSE Repeat(BubbleConfig.base_radius, c.node_count) \o Repeat(0, c.node_count)

StepFrom(from, flat, n) ==
    {flat[2 * k] : k \in {j \in 1 .. (Len(flat) \div 2) :
                            /\ flat[2 * j - 1] \in from
                            /\ flat[2 * j - 1] < n /\ flat[2 * j] < n
                            /\ flat[2 * j - 1] # flat[2 * j]}}

\* the ids reachable from the ids of from along the valid pairs
RECURSIVE Reach(_, _, _)
Reach(from, flat, n) ==
    IF StepFrom(from, flat, n) \subseteq from THEN from
    ELSE Reach(from \cup StepFrom(from, flat, n), flat, n)

SlotsOf(layout_nodes) == {layout_nodes[k].slot : k \in 1 .. Len(layout_nodes)}

ChosenRoot(c) == IF c.root_id # Vacant THEN c.root_id ELSE c.result.root

\* the slots below the node count that the call c can reach from its root
InTree(c) ==
    {s \in Reach({ChosenRoot(c)}, c.edges, c.node_count) : s < c.node_count}

HasValidPair(c) ==
    Len(c.edges) % 2 = 0 /\ ValidPairs(c.edges, c.node_count) # <<>>

IdsOf(flat, n) == {ValidPairs(flat, n)[k] : k \in 1 .. Len(ValidPairs(flat, n))}

\* those of them that are the child of no valid pair
Parentless(flat, n) ==
    {v \in IdsOf(flat, n) :
        \A k \in 1 .. (Len(ValidPairs(flat, n)) \div 2) : ValidPairs(flat, n)[2 * k] # v}

\* the number of ids reachable from v, v not counted
Descendants(v, flat, n) == Cardinality(Reach({v}, flat, n) \ {v})

\* C17: with no root given, compute, compute_codebase_layout and
\* compute_bubble_data start from the same root, which the edge list alone
\* fixes: the parentless node if there is one only; among several the one
\* with the most reachable descendants and, on a tie, the lowest id; and the
\* lowest id of a valid pair if every node has a parent.
C17_RootIsFunctionOfEdges ==
    (call.op # "none" /\ call.root_id = Vacant /\ HasValidPair(call)) =>
        LET flat  == call.edges
            n     == call.node_count
            roots == Parentless(flat, n)
            most  == {v \in roots :
                        \A o \in roots : Descendants(o, flat, n) <= Descendants(v, flat, n)}
        IN call.result.root = IF roots = {} THEN SetMin(IdsOf(flat, n)) ELSE SetMin(most)

\* ---- C18 ----
\* C18: in linear mode the x of every laid-out node that has a child in the
\* tree is the midpoint of the x of its first and of its last child, the
\* children in the order of the edge array, whatever the shape and depth of
\* the tree; no division of the walk left a remainder.
C18_ParentIsMidpoint ==
    (call.op = "compute" /\ call.mode = "Linear" /\ call.result.root # Vacant) =>
        LET r == call.result IN
        /\ r.exact
        /\ \A k \in 1 .. Len(r.layout_nodes) :
              LET node     == r.layout_nodes[k]
                  children == node.children
              IN children # <<>> =>
                   LET first == At(r.layout_nodes, children[1]).slot
                       last  == At(r.layout_nodes, children[Len(children)]).slot
                   IN /\ 2 * At(r.positions_x, node.slot)
                           = At(r.positions_x, first) + At(r.positions_x, last)
                      /\ 2 * At(r.final_x, k - 1)
                           = At(r.final_x, children[1]) + At(r.final_x, children[Len(children)])

\* a tree of three levels: the root has two children, the first of which
\* has two children of its own
C18_Witness ==
    /\ call.op = "compute"
    /\ call.mode = "Linear"
    /\ call.edges = <<0, 1, 0, 2, 1, 3, 1, 4>>
    /\ call.root_id = Vacant
    /\ call.result.node_count = 5
    /\ At(call.result.positions_x, 1) # At(call.result.positions_x, 3)

\* ---- C19 ----
\* C19: detect_communities returns one assignment per node, and the values
\* assigned are exactly 0 .. community_count - 1: each is used by a node and
\* none lies outside.
C19_AssignmentsAreContiguous ==
    call.op = "detect_communities" =>
        LET r == call.result IN
        /\ Len(r.assignments) = call.node_count
        /\ {r.assignments[k] : k \in 1 .. Len(r.assignments)} = 0 .. r.community_count - 1

\* two pairs of nodes found as two communities
C19_Witness ==
    /\ call.op = "detect_communities"
    /\ call.edges = <<0, 1, 2, 3>>
    /\ call.result.assignments = <<0, 0, 1, 1>>
    /\ call.result.community_count = 2

\* ---- C20 ----
\* C20: for a graph with an edge, the modularity detect_communities returns
\* is the modularity of the assignments it returns, on the original
\* adjacency and at the resolution given, and at resolution 1.0 it lies
\* between -0.5 and 1.0.
C20_ModularityIsOfAssignments ==
    (call.op = "detect_communities" /\ from_csr(call.csr, call.node_count).m2 > 0) =>
        LET r == call.result IN
        /\ r.modularity = compute_modularity(r.assignments, r.community_count,
                                             from_csr(call.csr, call.node_count),
                                             call.resolution)
        /\ call.resolution = <<1, 1>> =>
              /\ 0 - r.scale <= 2 * r.modularity
              /\ r.modularity <= r.scale

\* ---- C27 ----
\* C27: in every reachable state edge_id_to_index and edge_index_to_id are
\* inverse bijections whose size is edge_count(), and node_id_to_index is a
\* bijection between the live node ids and the occupied slots of the graph,
\* each slot storing the id that maps to it.
C27_IdMapsAreBijections ==
    /\ \A id \in DOMAIN edge_id_to_index :
          /\ edge_id_to_index[id] \in DOMAIN edge_index_to_id
          /\ edge_index_to_id[edge_id_to_index[id]] = id
    /\ \A index \in DOMAIN edge_index_to_id :
          /\ edge_index_to_id[index] \in DOMAIN edge_id_to_index
          /\ edge_id_to_index[edge_index_to_id[index]] = index
    /\ Cardinality(DOMAIN edge_id_to_index) = edge_count(Self)
    /\ Cardinality(DOMAIN edge_index_to_id) = edge_count(Self)
    /\ DOMAIN edge_index_to_id = sg_edge_indices(graph)
    /\ {node_id_to_index[id] : id \in Live} = sg_node_indices(graph)
    /\ \A id \in Live : At(graph.nodes, node_id_to_index[id]).weight = id

\* a node and an edge each live in a slot that an earlier one vacated
C27_Witness ==
    /\ \E id \in Live : node_id_to_index[id] < id
    /\ \E id \in LiveEdges : edge_id_to_index[id] < id

\* ---- C29 ----
\* C29: every live node occupies the slot whose index is its node id, the
\* slot under which the CSR exports, the degrees and the position buffers
\* list it.
C29_SlotIsNodeId ==
    \A id \in Live : node_id_to_index[id] = id

\* ---- C21 ----
\* C21: the partition detect_communities returns is the best one seen: no
\* partition evaluated at a level, scored on the original adjacency, has a
\* strictly higher modularity than the assignments returned have on the
\* original adjacency, a partition of a single community included.
C21_ReturnedIsBestSeen ==
    (call.op = "detect_communities" /\ from_csr(call.csr, call.node_count).m2 > 0) =>
        LET r   == call.result
            adj == from_csr(call.csr, call.node_count)
        IN \A candidate \in r.evaluated :
              compute_modularity(candidate, SeqMax(candidate, 1, 0) + 1, adj, call.resolution)
                 <= compute_modularity(r.assignments, r.community_count, adj,
                                       call.resolution)

\* ---- C22 ----
\* C22: for node_count = 0 detect_communities returns empty assignments,
\* community_count 0 and modularity 0; for node_count > 0 and zero total
\* edge weight it returns assignments[i] = i, community_count = node_count
\* and modularity 0, without running a level (whose gains divide by the
\* total weight).
C22_DegenerateInputs ==
    call.op = "detect_communities" =>
        LET r == call.result IN
        IF call.node_count = 0
        THEN r.assignments = <<>> /\ r.community_count = 0 /\ r.modularity = 0
        ELSE from_csr(call.csr, call.node_count).m2 = 0 =>
               /\ Len(r.assignments) = call.node_count
               /\ \A i \in 0 .. call.node_count - 1 : At(r.assignments, i) = i
               /\ r.community_count = call.node_count
               /\ r.modularity = 0
               /\ r.level_sizes = <<>>

\* four nodes and a CSR without targets
C22_Witness ==
    /\ call.op = "detect_communities"
    /\ call.node_count = 4
    /\ call.csr = <<0, 0, 0, 0, 0>>
    /\ call.result.assignments = <<0, 1, 2, 3>>

\* ---- C23 ----
\* C23: for the two disjoint triangles {0,1,2} and {3,4,5}, each undirected
\* edge stored in both directions, at resolution 1.0 detect_communities
\* returns exactly 2 communities: 0, 1, 2 share one id, 3, 4, 5 share
\* another, and the modularity is positive.
C23_TwoTriangles ==
    (/\ call.op = "detect_communities"
     /\ call.node_count = 6
     /\ call.resolution = <<1, 1>>
     /\ {<<call.edges[2 * k - 1], call.edges[2 * k]>> : k \in 1 .. Len(call.edges) \div 2}
           = CliqueEdges) =>
        LET r == call.result IN
        /\ r.community_count = 2
        /\ At(r.assignments, 0) = At(r.assignments, 1)
        /\ At(r.assignments, 1) = At(r.assignments, 2)
        /\ At(r.assignments, 3) = At(r.assignments, 4)
        /\ At(r.assignments, 4) = At(r.assignments, 5)
        /\ At(r.assignments, 0) # At(r.assignments, 3)
        /\ r.modularity > 0

\* the call of the test
C23_Witness ==
    /\ call.op = "detect_communities"
    /\ call.csr = <<0, 2, 4, 6, 8, 10, 12, 1, 2, 0, 2, 0, 1, 4, 5, 3, 5, 3, 4>>
    /\ call.resolution = <<1, 1>>
    /\ call.result.community_count = 2

\* ---- C24 ----
\* C24: detect_communities ends on every input: a level makes at most
\* max_iterations local-moving passes, there are at most 20 levels, and
\* every level after the first works on strictly fewer nodes than the level
\* before it.
C24_LevelsShrink ==
    call.op = "detect_communities" =>
        LET r == call.result IN
        /\ Len(r.level_sizes) <= max_levels
        /\ Len(r.passes) = Len(r.level_sizes)
        /\ \A k \in 1 .. Len(r.passes) : r.passes[k] <= call.max_iterations
        /\ \A k \in 2 .. Len(r.level_sizes) : r.level_sizes[k] < r.level_sizes[k - 1]

\* a call of max_iterations 1 whose first pass moved a node, and which went
\* on to a second level
C24_Witness ==
    /\ call.op = "detect_communities"
    /\ call.max_iterations = 1
    /\ Len(call.result.level_sizes) >= 2
    /\ call.result.passes[1] = 1
    /\ call.result.community_count < call.node_count

\* ---- C30 ----
\* the nodes an undirected path of the input graph joins to a node
RECURSIVE Component(_, _)
Component(adj, seen) ==
    LET more == seen \cup UNION {{At(adj.neighbors, v)[k][1] :
                                      k \in 1 .. Len(At(adj.neighbors, v))} : v \in seen}
    IN IF more = seen THEN seen ELSE Component(adj, more)

\* the assignments keep every community inside one connected component
WithinComponents(adj, assignments) ==
    \A i \in 0 .. Len(assignments) - 1, j \in 0 .. Len(assignments) - 1 :
       At(assignments, i) = At(assignments, j) => j \in Component(adj, {i})

\* C30: detect_communities never gives the same community id to two nodes of
\* different connected components of the undirected input graph, in the
\* result or in the partition of any level; a node without incident edge is
\* alone in its community.
C30_CommunitiesStayInComponents ==
    (call.op = "detect_communities" /\ call.node_count > 0) =>
        LET r   == call.result
            adj == from_csr(call.csr, call.node_count)
        IN /\ WithinComponents(adj, r.assignments)
           /\ \A candidate \in r.evaluated : WithinComponents(adj, candidate)
           /\ \A i \in 0 .. call.node_count - 1 :
                 At(adj.neighbors, i) = <<>> =>
                    \A j \in 0 .. call.node_count - 1 :
                       /\ At(r.assignments, j) = At(r.assignments, i) => j = i
                       /\ \A candidate \in r.evaluated :
                             At(candidate, j) = At(candidate, i) => j = i

\* two components of two nodes each, merged into two communities and
\* coarsened into a second level
C30_Witness ==
    /\ call.op = "detect_communities"
    /\ call.edges = <<0, 2, 1, 3>>
    /\ call.result.assignments = <<0, 1, 0, 1>>
    /\ Len(call.result.level_sizes) = 2

\* ---- C25 ----
\* the least number of valid pairs that lead from the ids of from to v, for
\* a v they reach; k is the number of pairs taken so far
RECURSIVE BfsDistance(_, _, _, _, _)
BfsDistance(from, v, k, flat, n) ==
    IF v \in from THEN k
    ELSE BfsDistance(from \cup StepFrom(from, flat, n), v, k + 1, flat, n)

\* C25: compute_bubble_data returns 2 * node_count values, the radii first
\* and the depths second, and the depth of every slot of the tree is its BFS
\* distance from the root, the least number of containment edges that lead
\* to it, the root being at depth 0; also for a child of several parents.
C25_DepthIsBfsDistance ==
    (call.op = "compute_bubble_data" /\ call.result.root # Vacant) =>
        LET r == call.result
            n == call.node_count
        IN /\ Len(r.data) = 2 * n
           /\ \A s \in InTree(call) :
                 At(r.data, n + s) = BfsDistance({r.root}, s, 0, call.edges, n)

\* ---- C26 ----
\* C26: in the layout compute_codebase_layout makes, before the spread
\* factor, the centre of every child lies within the radius of its parent of
\* the centre of its parent, at every depth of nesting, also where the
\* relaxation of overlaps has moved a sibling whose children were placed
\* before.
C26_ChildWithinParent ==
    (call.op = "compute_codebase_layout" /\ call.result.root # Vacant) =>
        LET nodes == call.result.layout_nodes IN
        \A k \in 1 .. Len(nodes) : \A c \in 1 .. Len(nodes[k].children) :
           LET child == At(nodes, nodes[k].children[c])
               dx == child.x - nodes[k].x
               dy == child.y - nodes[k].y
           IN dx * dx + dy * dy <= nodes[k].radius * nodes[k].radius

\* ---- C28 ----
\* C28: in linear mode any two distinct nodes of the layout at the same depth
\* have output x at least sibling_separation * level_separation apart, and
\* from left to right they stand in the order of the depth-first walk (the
\* order of the edges), whatever the depths and shapes of the subtrees.
C28_LevelsAreSeparated ==
    (call.op = "compute" /\ call.mode = "Linear" /\ call.result.root # Vacant) =>
        LET r      == call.result
            config == TidyTreeConfig(call.mode)
        IN \A i \in 1 .. Len(r.layout_nodes), j \in 1 .. Len(r.layout_nodes) :
              (i < j /\ r.layout_nodes[i].depth = r.layout_nodes[j].depth) =>
                 At(r.positions_x, r.layout_nodes[j].slot)
                   - At(r.positions_x, r.layout_nodes[i].slot)
                     >= config.sibling_separation * config.level_separation
====
